---- MODULE Spec2Model ----
(***************************************************************************)
(* A model of the symbolic core of synth: argument mappings, synthetic     *)
(* values, configuration changes, the change intersection, the covering    *)
(* search and the Timeout context manager.                                 *)
(*                                                                         *)
(* A Python str is a sequence of one-character strings.  A                 *)
(* ConfigurationTaskArgument is identified by its value (its dataclass     *)
(* equality compares value, original_type and original_value, which agree  *)
(* for str arguments), so an argument is the string that is its value.     *)
(***************************************************************************)
EXTENDS Integers, Sequences, FiniteSets, TLC

VARIABLES
    mapping,        \* the ConfigurationTaskArgumentMapping object under test
    raised,         \* whether the last operation on it raised MatchingException
    sv,             \* the SyntheticValue under test
    primitive,      \* the primitive last passed to sv.map_to_primitive
    found,          \* the set of mappings that call returned
    svOp,           \* the call that produced the current sv or found
    rebinds,        \* how many from_mapping calls lie between __init__ and sv
    ciSource,       \* change_intersection: the source changes
    ciTarget,       \* change_intersection: the target changes
    ciWithMapping,  \* change_intersection: with_mapping, "None", "True" or "False"
    ciTimedOut,     \* the pairs whose Timeout(seconds=1) fired in the call
    ciCliqueTimeout,\* whether the Timeout(seconds=30) of the clique search fired
    ciResult,       \* what the call returned
    ciDone,         \* whether the call has been made
    gsTasks,        \* get_task_set: the candidate tasks, in task order
    gsTarget,       \* get_task_set: the target changes it was called with
    gsResidual,     \* the target changes not yet covered
    gsResults,      \* the search results selected so far
    gsCovered,      \* for each result, the target changes it covered
    gsDone,         \* whether the search has stopped
    tmAlarm,        \* seconds until SIGALRM is delivered, 0 if no alarm is pending
    tmHandler,      \* <<seconds>> of the Timeout whose handler is installed, <<>> if none
    tmScopes,       \* the seconds of the Timeout scopes entered and not yet exited
    tmLast,         \* the last call or signal and how it ended
    call,           \* the inputs of the function under test, [op |-> "none"] if none
    returns,        \* what the calls made with these inputs returned, in call order
    kbRows,         \* the rows of task_executions, in insertion order
    kbAvailable,    \* whether the MySQL server accepts connections
    kbLast,         \* the last call to the knowledge base and how it ended
    agTodo,         \* the pairs no worker of the Pool has mapped yet
    agQueue,        \* the results of _map that the main process has not yet received
    agCounter,      \* counter: for each mapping found, how many pairs it came from
    agOrder,        \* the keys of counter in the order they were first met
    agSourceChanges,\* mapping_source_changes
    agTargetChanges,\* mapping_target_changes
    agRaised,       \* whether the exception of a worker was raised in the main process
    syCandidates,   \* the candidate tasks the knowledge base holds at each level
    syRunner,       \* whether image, base_image and order are all given
    syLevel,        \* level
    syChanges,      \* changes: the changes still to reproduce
    syTasks,        \* tasks: the configuration tasks synthesized so far
    syRounds,       \* for each round of the loop, its level, the changes searched, the target changes covered
    syPc,           \* where synthesize_configuration_tasks is: loop, search, returned, raised
    mpStates,       \* states: the stack of search states of map_to_primitive
    mpFrom,         \* for each state on the stack, the position of the state it was derived from
    mpMappings,     \* mappings: the mappings found so far
    mpStarted       \* whether map_to_primitive has been entered

mapVars == <<mapping, raised>>
valueVars == <<sv, primitive, found, svOp, rebinds>>
intersectVars == <<ciSource, ciTarget, ciWithMapping, ciTimedOut, ciCliqueTimeout, ciResult, ciDone>>

searchVars == <<gsTasks, gsTarget, gsResidual, gsResults, gsCovered, gsDone>>
timeoutVars == <<tmAlarm, tmHandler, tmScopes, tmLast>>
callVars == <<call, returns>>
kbVars == <<kbRows, kbAvailable, kbLast>>
poolVars == <<agTodo, agQueue, agCounter, agOrder, agSourceChanges, agTargetChanges, agRaised>>
synthVars == <<syCandidates, syRunner, syLevel, syChanges, syTasks, syRounds, syPc>>
stackVars == <<mpStates, mpFrom, mpMappings, mpStarted>>

vars == <<mapVars, valueVars, intersectVars, searchVars, timeoutVars, callVars, kbVars, poolVars, synthVars, stackVars>>

(***************************************************************************)
(* Strings                                                                 *)
(***************************************************************************)
StringsUpTo(A, n) == UNION {[1..k -> A] : k \in 0..n}

Min(a, b) == IF a < b THEN a ELSE b

\* s[i:j] with 0-based, end-exclusive Python indices, clipped to len(s)
Slice(s, i, j) ==
    LET hi == Min(j, Len(s))
    IN  IF hi <= i THEN <<>> ELSE SubSeq(s, i + 1, hi)

\* a sequence that enumerates the set S once (iteration order of a set or dict)
RECURSIVE SetToSeq(_)
SetToSeq(S) ==
    IF S = {} THEN <<>>
    ELSE LET x == CHOOSE y \in S : TRUE IN <<x>> \o SetToSeq(S \ {x})

(***************************************************************************)
(* ConfigurationTaskArgumentMapping                                        *)
(***************************************************************************)
EmptyDict == [k \in {} |-> <<>>]

\* d[k] = v
DictSet(d, k, v) == [x \in DOMAIN d \cup {k} |-> IF x = k THEN v ELSE d[x]]

\* dict.items() as a sequence of (key, value) pairs
Items(d) == SetToSeq({<<k, d[k]>> : k \in DOMAIN d})

\* ConfigurationTaskArgumentMapping(): both dictionaries empty
EmptyMapping == [source_arguments |-> EmptyDict, target_arguments |-> EmptyDict]

\* add_pair without its conflict check
add_pair_unchecked(m, pair) ==
    [raised |-> FALSE,
     obj |-> [source_arguments |-> DictSet(m.source_arguments, pair[1], pair[2]),
              target_arguments |-> DictSet(m.target_arguments, pair[2], pair[1])]]

\* add_pair that sets both entries before its conflict check
add_pair_then_check(m, pair) ==
    [raised |-> \/ (pair[1] \in DOMAIN m.source_arguments /\ m.source_arguments[pair[1]] # pair[2])
                \/ (pair[2] \in DOMAIN m.target_arguments /\ m.target_arguments[pair[2]] # pair[1]),
     obj |-> [source_arguments |-> DictSet(m.source_arguments, pair[1], pair[2]),
              target_arguments |-> DictSet(m.target_arguments, pair[2], pair[1])]]

\* add_pair: raises and leaves m alone on a conflict, else sets both entries
add_pair(m, pair) ==
    LET a == pair[1]
        b == pair[2]
        a_mapped == a \in DOMAIN m.source_arguments
        b_mapped == b \in DOMAIN m.target_arguments
    IN  IF \/ (a_mapped /\ m.source_arguments[a] # b)
           \/ (b_mapped /\ m.target_arguments[b] # a)
        THEN [raised |-> TRUE, obj |-> m]
        ELSE [raised |-> FALSE,
              obj |-> [source_arguments |-> DictSet(m.source_arguments, a, b),
                       target_arguments |-> DictSet(m.target_arguments, b, a)]]

\* the loop of __init__: add the pairs in turn, stop at the first that raises
RECURSIVE AddPairs(_, _)
AddPairs(m, pairs) ==
    IF pairs = <<>> THEN [raised |-> FALSE, obj |-> m]
    ELSE LET r == add_pair(m, Head(pairs))
         IN  IF r.raised THEN r ELSE AddPairs(r.obj, Tail(pairs))

\* ConfigurationTaskArgumentMapping(pairs)
NewMapping(pairs) == AddPairs(EmptyMapping, pairs)

\* invert that keeps every pair in its direction
invert_unswapped(m) == NewMapping(Items(m.source_arguments))

\* m.invert()
invert(m) ==
    NewMapping([i \in 1..Len(Items(m.source_arguments)) |->
                   <<Items(m.source_arguments)[i][2], Items(m.source_arguments)[i][1]>>])

\* self.merge(other)
merge(self, other) ==
    NewMapping(Items(self.source_arguments) \o Items(other.source_arguments))

\* chain.from_iterable(m.source_arguments.items() for m in mappings)
RECURSIVE ChainItems(_)
ChainItems(mappings) ==
    IF mappings = <<>> THEN <<>>
    ELSE Items(Head(mappings).source_arguments) \o ChainItems(Tail(mappings))

\* merge_all(mappings)
merge_all(mappings) == NewMapping(ChainItems(mappings))

(***************************************************************************)
(* SyntheticValue                                                          *)
(***************************************************************************)
\* a part of a synthetic value: a literal run or an argument
Lit(s) == [is_arg |-> FALSE, value |-> s]
Arg(a) == [is_arg |-> TRUE, value |-> a]

\* ''.join(part values)
RECURSIVE JoinParts(_)
JoinParts(parts) ==
    IF parts = <<>> THEN <<>> ELSE Head(parts).value \o JoinParts(Tail(parts))

\* str.find(sub, start): the lowest 0-based index >= start where sub occurs, or -1
RECURSIVE Find(_, _, _)
Find(s, sub, start) ==
    IF start + Len(sub) > Len(s) THEN -1
    ELSE IF Slice(s, start, start + Len(sub)) = sub THEN start
    ELSE Find(s, sub, start + 1)

Digits == {"0", "1", "2", "3", "4", "5", "6", "7", "8", "9"}

\* \d* from 0-based position i: the end of the run of digits
RECURSIVE DigitRunEnd(_, _)
DigitRunEnd(s, i) ==
    IF i < Len(s) /\ s[i + 1] \in Digits THEN DigitRunEnd(s, i + 1) ELSE i

\* (?:0|[1-9]\d*) at position i: the end of the match, or -1
NumberEnd(s, i) ==
    IF i >= Len(s) THEN -1
    ELSE IF s[i + 1] = "0" THEN i + 1
    ELSE IF s[i + 1] \in Digits THEN DigitRunEnd(s, i + 1)
    ELSE -1

\* VERSION_REGEX at position i: the end of the match, or -1.  The prerelease
\* and build groups begin with '-' and '+'; they are optional and match
\* nothing in a string that holds neither character.
VersionEnd(s, i) ==
    LET e1 == NumberEnd(s, i)
        e2 == IF e1 # -1 /\ e1 < Len(s) /\ s[e1 + 1] = "." THEN NumberEnd(s, e1 + 1) ELSE -1
        e3 == IF e2 # -1 /\ e2 < Len(s) /\ s[e2 + 1] = "." THEN NumberEnd(s, e2 + 1) ELSE -1
    IN  IF e2 = -1 THEN -1 ELSE IF e3 # -1 THEN e3 ELSE e2

\* VERSION_REGEX.findall(s) from position i: the non-overlapping matches
RECURSIVE FindAllVersions(_, _)
FindAllVersions(s, i) ==
    IF i >= Len(s) THEN {}
    ELSE LET e == VersionEnd(s, i)
         IN  IF e = -1 THEN FindAllVersions(s, i + 1)
             ELSE {Slice(s, i, e)} \cup FindAllVersions(s, e)

\* value.replace('.', '/')
ReplaceDots(s) == [i \in 1..Len(s) |-> IF s[i] = "." THEN "/" ELSE s[i]]

\* the arguments __init__ decomposes over: the pool, the version numbers of
\* ov_str, and the slashed form of every dotted argument that occurs in ov_str
CandidateArguments(ov_str, arguments) ==
    LET with_versions == arguments \cup FindAllVersions(ov_str, 0)
        new_args == {ReplaceDots(a) : a \in {x \in with_versions :
                        /\ \E i \in 1..Len(x) : x[i] = "."
                        /\ Find(ov_str, ReplaceDots(x), 0) # -1}}
    IN  with_versions \cup new_args

\* the orders sorted(arguments, key=len, reverse=True) can give: the sort is
\* stable, and the order of a set among arguments of equal length is arbitrary
SortedOrders(args) ==
    {o \in [1..Cardinality(args) -> args] :
        /\ \A i, j \in 1..Cardinality(args) : i # j => o[i] # o[j]
        /\ \A i, j \in 1..Cardinality(args) : i < j => Len(o[i]) >= Len(o[j])}

\* one literal part split on every occurrence of the argument, empty pieces kept
RECURSIVE SplitPart(_, _)
SplitPart(s, a) ==
    LET i == Find(s, a, 0)
    IN  IF i = -1 THEN <<Lit(s)>>
        ELSE <<Lit(Slice(s, 0, i)), Arg(a)>> \o SplitPart(Slice(s, i + Len(a), Len(s)), a)

\* new_parts for one argument: arguments pass, literal parts are split
RECURSIVE SplitParts(_, _)
SplitParts(parts, a) ==
    IF parts = <<>> THEN <<>>
    ELSE (IF Head(parts).is_arg THEN <<Head(parts)>> ELSE SplitPart(Head(parts).value, a))
         \o SplitParts(Tail(parts), a)

\* filter(lambda p: p, new_parts) with every part kept
KeepAllParts(parts) == parts

\* filter(lambda p: p, new_parts): empty literal parts are dropped
DropEmptyParts(parts) == SelectSeq(parts, LAMBDA p : p.is_arg \/ p.value # <<>>)

\* the loop over the sorted arguments; an argument with an empty value is skipped
RECURSIVE Decompose(_, _)
Decompose(parts, order) ==
    IF order = <<>> THEN parts
    ELSE IF Head(order) = <<>> THEN Decompose(parts, Tail(order))
    ELSE Decompose(DropEmptyParts(SplitParts(parts, Head(order))), Tail(order))

ArgumentsOf(parts) == {parts[i].value : i \in {j \in 1..Len(parts) : parts[j].is_arg}}

\* SyntheticValue(original_value, arguments), the arguments sorted as order
SyntheticValue(original_value, order) ==
    LET parts == Decompose(IF original_value # <<>> THEN <<Lit(original_value)>> ELSE <<>>,
                           order)
    IN  [original_value |-> original_value,
         original_type |-> "str",
         arguments |-> ArgumentsOf(parts),
         parts |-> parts]

\* mapping.source_arguments.get(part, part) for the parts that are arguments
MapParts(parts, m) ==
    [i \in 1..Len(parts) |->
        IF parts[i].is_arg /\ parts[i].value \in DOMAIN m.source_arguments
        THEN Arg(m.source_arguments[parts[i].value])
        ELSE parts[i]]

\* self.from_mapping(mapping)
from_mapping(self, m) ==
    LET parts == MapParts(self.parts, m)
    IN  [original_value |-> JoinParts(parts),
         original_type |-> self.original_type,
         arguments |-> ArgumentsOf(parts),
         parts |-> parts]

\* self_sequence: every literal character and every argument is one token
RECURSIVE Tokens(_)
Tokens(parts) ==
    IF parts = <<>> THEN <<>>
    ELSE (IF Head(parts).is_arg THEN <<Head(parts)>>
          ELSE [i \in 1..Len(Head(parts).value) |-> Lit(<<Head(parts).value[i]>>)])
         \o Tokens(Tail(parts))

\* a token equals a character of other iff it is that literal character
TokenIs(tok, c) == ~tok.is_arg /\ tok.value = <<c>>

\* the inner while loop without the comparison of the two sequences
RECURSIVE AdvanceUncompared(_, _, _, _)
AdvanceUncompared(seq, other, self_idx, other_idx) ==
    IF /\ self_idx < Len(seq)
       /\ other_idx < Len(other)
       /\ ~seq[self_idx + 1].is_arg
    THEN AdvanceUncompared(seq, other, self_idx + 1, other_idx + 1)
    ELSE <<self_idx, other_idx>>

\* the inner while loop: advance both indices while the sequences agree
RECURSIVE Advance(_, _, _, _)
Advance(seq, other, self_idx, other_idx) ==
    IF /\ self_idx < Len(seq)
       /\ other_idx < Len(other)
       /\ TokenIs(seq[self_idx + 1], other[other_idx + 1])
    THEN Advance(seq, other, self_idx + 1, other_idx + 1)
    ELSE <<self_idx, other_idx>>

\* the index of the first token from next_idx on that is not an argument
RECURSIVE SkipArguments(_, _)
SkipArguments(seq, next_idx) ==
    IF next_idx < Len(seq) /\ seq[next_idx + 1].is_arg
    THEN SkipArguments(seq, next_idx + 1)
    ELSE next_idx

\* other.rindex(c, start): the highest index >= start that holds c, or -1
RIndex(other, c, start) ==
    LET hits == {k \in start..(Len(other) - 1) : other[k + 1] = c}
    IN  IF hits = {} THEN -1 ELSE CHOOSE k \in hits : \A h \in hits : h <= k

\* Indices with the boundary between two consecutive arguments stopping one
\* short of the last occurrence of the next literal
IndicesOneShort(seq, other, self_idx, other_idx) ==
    IF self_idx + 1 = Len(seq) THEN {Len(other)}
    ELSE IF seq[self_idx + 2].is_arg
    THEN LET next_idx == SkipArguments(seq, self_idx + 1)
             last == IF next_idx < Len(seq)
                     THEN RIndex(other, seq[next_idx + 1].value[1], other_idx)
                     ELSE Len(other)
         IN  IF last = -1 THEN {} ELSE other_idx..(last - 1)
    ELSE {k \in other_idx..(Len(other) - 1) : other[k + 1] = seq[self_idx + 2].value[1]}

\* the indices at which an argument met at (self_idx, other_idx) may end
Indices(seq, other, self_idx, other_idx) ==
    IF self_idx + 1 = Len(seq) THEN {Len(other)}
    ELSE IF seq[self_idx + 2].is_arg
    THEN LET next_idx == SkipArguments(seq, self_idx + 1)
             last == IF next_idx < Len(seq)
                     THEN RIndex(other, seq[next_idx + 1].value[1], other_idx)
                     ELSE Len(other)
         IN  IF last = -1 THEN {} ELSE other_idx..last
    ELSE {k \in other_idx..(Len(other) - 1) : other[k + 1] = seq[self_idx + 2].value[1]}

\* a pushed state that stays at the argument
SamePosition(self_idx) == self_idx

\* the position of a pushed state: self_idx + 1, past the argument
NextPosition(self_idx) == self_idx + 1

\* one iteration of the search loop on the popped state st: whether its mapping
\* is added to the result, and the states it pushes
Visit(seq, other, st) ==
    LET at == Advance(seq, other, st.self_idx, st.other_idx)
        self_idx == at[1]
        other_idx == at[2]
        arg == seq[self_idx + 1]
        bound == st.mapping.source_arguments[arg.value]
    IN  IF self_idx = Len(seq) /\ other_idx = Len(other)
        THEN [add |-> TRUE, push |-> {}]
        ELSE IF self_idx = Len(seq) \/ other_idx = Len(other)
        THEN [add |-> FALSE, push |-> {}]
        ELSE IF ~arg.is_arg
        THEN [add |-> FALSE, push |-> {}]
        ELSE IF arg.value \in DOMAIN st.mapping.source_arguments
        THEN [add |-> FALSE,
              push |-> IF Slice(other, other_idx, other_idx + Len(bound)) = bound
                       THEN {[self_idx |-> NextPosition(self_idx),
                              other_idx |-> other_idx + Len(bound),
                              mapping |-> st.mapping]}
                       ELSE {}]
        ELSE [add |-> FALSE,
              push |-> {[self_idx |-> NextPosition(self_idx), other_idx |-> idx, mapping |-> r.obj] :
                          <<idx, r>> \in
                            {x \in {<<k, merge(st.mapping,
                                               NewMapping(<<<<arg.value,
                                                  Slice(other, other_idx, k)>>>>).obj)>> :
                                       k \in Indices(seq, other, self_idx, other_idx)} :
                                ~x[2].raised}}]

\* the mappings the search adds from the state st on
RECURSIVE Search(_, _, _)
Search(seq, other, st) ==
    LET v == Visit(seq, other, st)
    IN  (IF v.add THEN {st.mapping} ELSE {})
        \cup UNION {Search(seq, other, n) : n \in v.push}

\* the mapping of every argument of self to itself
IdentityMapping(args) ==
    NewMapping([i \in 1..Cardinality(args) |-> <<SetToSeq(args)[i], SetToSeq(args)[i]>>]).obj

\* self.map_to_primitive(other), other a str
map_to_primitive(self, other) ==
    IF self.original_value = other THEN {IdentityMapping(self.arguments)}
    ELSE IF self.arguments = {} THEN {}
    ELSE Search(Tokens(self.parts), other,
                [self_idx |-> 0, other_idx |-> 0, mapping |-> EmptyMapping])

(***************************************************************************)
(* all_combinations, and map_to_other of DataclassWithSyntheticValues      *)
(***************************************************************************)
\* itertools.product of a sequence of sets: one element of each, in order
Product(sets) ==
    {c \in [1..Len(sets) -> UNION {sets[i] : i \in 1..Len(sets)}] :
        \A i \in 1..Len(sets) : c[i] \in sets[i]}

\* all_combinations without its return for the empty list
all_combinations_unguarded(mappings) ==
    {r.obj : r \in {q \in {merge_all(c) : c \in Product(mappings)} : ~q.raised}}

\* all_combinations(mappings): the merges of the product that do not raise;
\* the empty set for an empty list
all_combinations(mappings) ==
    IF Len(mappings) = 0 THEN {}
    ELSE {r.obj : r \in {q \in {merge_all(c) : c \in Product(mappings)} : ~q.raised}}

\* A change is [type, fields, changes, container]: the SyntheticValue fields
\* in declaration order, and for a FileChange the FileContentChange rows
\* [change_type, content]; no other variant has a container field.  The
\* rows are a sequence when the FileChange was given a tuple and a set when
\* it was given a frozenset, and container says which.
HasChanges(type) == type = "FileChange"

\* len(self.changes)
NumRows(self) == IF self.container = "frozenset" THEN Cardinality(self.changes) ELSE Len(self.changes)

\* FileContentChange.map_to_other without the comparison of change_type
RowMapAnyType(self, other) ==
    all_combinations(<<map_to_primitive(self.content, other.content.original_value)>>)

\* FileContentChange.map_to_other: change_type is a primitive field
RowMapToOther(self, other) ==
    IF self.change_type # other.change_type THEN {}
    ELSE all_combinations(<<map_to_primitive(self.content, other.content.original_value)>>)

\* only the first field mapped
FirstFieldMappings(self, other) ==
    <<map_to_primitive(self.fields[1], other.fields[1].original_value)>>

\* issubclass(type(other), self.original_type), for the types str and int
TypeMatches(self, other_type) == other_type = self.original_type

\* map_to_primitive raises ValueError for a field or for the content of a
\* row, when the generators at the end of map_to_other are run
RaisesValueError(self, other) ==
    \/ \E i \in 1..Len(self.fields) :
          ~TypeMatches(self.fields[i], other.fields[i].original_type)
    \/ /\ self.container = "tuple"
       /\ \E i \in 1..Min(Len(self.changes), Len(other.changes)) :
             /\ self.changes[i].change_type = other.changes[i].change_type
             /\ ~TypeMatches(self.changes[i].content, other.changes[i].content.original_type)
    \/ /\ self.container = "frozenset"
       /\ \E self_item \in self.changes, other_item \in other.changes :
             /\ self_item.change_type = other_item.change_type
             /\ ~TypeMatches(self_item.content, other_item.content.original_type)

\* the generators chained at the end of map_to_other
FieldMappings(self, other) ==
    [i \in 1..Len(self.fields) |->
        map_to_primitive(self.fields[i], other.fields[i].original_value)]

SequenceMappings(self, other) ==
    IF HasChanges(self.type) /\ self.container = "tuple"
    THEN <<all_combinations([i \in 1..Min(Len(self.changes), Len(other.changes)) |->
                RowMapToOther(self.changes[i], other.changes[i])])>>
    ELSE <<>>

\* the same without the filter that drops the pairs that have no mapping
SetMappingsAllPairs(self, other) ==
    IF HasChanges(self.type) /\ self.container = "frozenset"
    THEN LET pairs == SetToSeq(self.changes \X other.changes)
         IN  <<all_combinations([i \in 1..Len(pairs) |->
                                    RowMapToOther(pairs[i][1], pairs[i][2])])>>
    ELSE <<>>

\* for a frozenset of rows: every pair of product(self.changes,
\* other.changes) that has a mapping contributes its mappings
SetMappings(self, other) ==
    IF HasChanges(self.type) /\ self.container = "frozenset"
    THEN LET pairs == SetToSeq(self.changes \X other.changes)
             item_mappings == [i \in 1..Len(pairs) |->
                                 RowMapToOther(pairs[i][1], pairs[i][2])]
         IN  <<all_combinations(SelectSeq(item_mappings, LAMBDA mappings : mappings # {}))>>
    ELSE <<>>

\* self.map_to_other(other) for two changes: TypeError for another variant,
\* ValueError from map_to_primitive for a value of another type
map_to_other(self, other) ==
    IF self.type # other.type
    THEN [type_error |-> TRUE, value_error |-> FALSE, mappings |-> {}]
    ELSE IF HasChanges(self.type) /\ NumRows(self) # NumRows(other)
    THEN [type_error |-> FALSE, value_error |-> FALSE, mappings |-> {}]
    ELSE IF RaisesValueError(self, other)
    THEN [type_error |-> FALSE, value_error |-> TRUE, mappings |-> {}]
    ELSE [type_error |-> FALSE, value_error |-> FALSE,
          mappings |-> all_combinations(FieldMappings(self, other)
                                        \o SequenceMappings(self, other)
                                        \o SetMappings(self, other))]

\* change.from_mapping(mapping)
change_from_mapping(self, m) ==
    LET rows == IF self.container = "frozenset" THEN SetToSeq(self.changes) ELSE self.changes
        mapped == [i \in 1..Len(rows) |->
                     [change_type |-> rows[i].change_type,
                      content |-> from_mapping(rows[i].content, m)]]
    IN  [type |-> self.type,
         fields |-> [i \in 1..Len(self.fields) |-> from_mapping(self.fields[i], m)],
         changes |-> IF self.container = "frozenset"
                     THEN {mapped[i] : i \in 1..Len(rows)}
                     ELSE mapped,
         container |-> self.container]

(***************************************************************************)
(* ConfigurationChange.change_intersection                                 *)
(***************************************************************************)
ExactThreshold == 25000000      \* pairs above which 'auto' takes source & target
ParallelThreshold == 500000     \* pairs from which the mapping runs in a Pool
TopK == 19                      \* mappings added to the graph per source argument

\* product(source_binned[type], target_binned[type]) chained over shared types
BinnedPairs(source, target) == {p \in source \X target : p[1].type = p[2].type}

\* except (TypeError, TimeoutError): the ValueError of a pair whose Timeout
\* did not fire is not caught and leaves change_intersection
EscapingError(source, target, timed_out) ==
    \E p \in BinnedPairs(source, target) \ timed_out : map_to_other(p[1], p[2]).value_error

\* what one pair contributes: nothing if its Timeout fired or it hit TypeError
PairMappings(p, timed_out) ==
    IF p \in timed_out \/ map_to_other(p[1], p[2]).type_error THEN {}
    ELSE map_to_other(p[1], p[2]).mappings

\* an edge between every two nodes
AlwaysCompatible(u, v) == TRUE

\* the edge test of the graph: u.merge(v) does not raise
Compatible(u, v) == ~merge(u, v).raised

\* node weight 1 for every mapping
UnitWeight(counter, m) == 1

\* g.add_node(mapping, weight=count)
Weight(counter, m) == counter[m]

RECURSIVE SumWeights(_, _)
SumWeights(counter, K) ==
    IF K = {} THEN 0
    ELSE LET m == CHOOSE x \in K : TRUE
         IN  Weight(counter, m) + SumWeights(counter, K \ {m})

\* the mappings sorted by frequency, most frequent first; ties are in the
\* order the Counter first met them, which is any order
SortedMappings(counter) ==
    {o \in [1..Cardinality(DOMAIN counter) -> DOMAIN counter] :
        /\ \A i, j \in 1..Len(o) : i # j => o[i] # o[j]
        /\ \A i, j \in 1..Len(o) : i < j => counter[o[i]] >= counter[o[j]]}

\* the first TopK mappings of the sorted list that hold the argument
TopFor(arg, sorted) ==
    LET holds == {i \in 1..Len(sorted) : arg \in DOMAIN sorted[i].source_arguments}
    IN  {sorted[i] : i \in {j \in holds : Cardinality({k \in holds : k < j}) < TopK}}

\* the nodes of g: the top mappings of every source argument, and the empty
\* mapping if it was found
GraphNodes(counter, sorted) ==
    UNION {TopFor(arg, sorted) :
              arg \in UNION {DOMAIN m.source_arguments : m \in DOMAIN counter}}
    \cup (IF EmptyMapping \in DOMAIN counter THEN {EmptyMapping} ELSE {})

\* the node sets the loop can build.  While no argument is held by more than
\* TopK mappings the break is never taken and every order keeps every mapping.
GraphNodeSets(counter) ==
    IF \A arg \in UNION {DOMAIN m.source_arguments : m \in DOMAIN counter} :
          Cardinality({m \in DOMAIN counter : arg \in DOMAIN m.source_arguments}) <= TopK
    THEN {DOMAIN counter}
    ELSE {GraphNodes(counter, o) : o \in SortedMappings(counter)}

\* the sets of nodes that are pairwise joined by an edge
Cliques(nodes) ==
    {K \in SUBSET nodes : \A u, v \in K : u # v => Compatible(u, v)}

\* nx.max_weight_clique(g): a clique of the largest total weight (the empty
\* list for a graph without nodes); which of several it returns is not fixed here
MaxWeightCliques(counter, nodes) ==
    {K \in Cliques(nodes) :
        \A L \in Cliques(nodes) : SumWeights(counter, L) <= SumWeights(counter, K)}

EmptyIntersection ==
    [raised |-> FALSE, source_changes |-> {}, target_changes |-> {}, mapping |-> EmptyMapping]

\* the per-pair results gathered as in the loops over the pairs
PairResults(source, target, timed_out) ==
    {<<p, PairMappings(p, timed_out)>> : p \in BinnedPairs(source, target)}

\* counter[mapping]: the number of pairs the mapping came from
CounterOf(results) ==
    [m \in UNION {r[2] : r \in results} |-> Cardinality({r \in results : m \in r[2]})]

\* the results change_intersection can return.  timed_out are the pairs whose
\* Timeout fires, clique_timeout whether the clique search's Timeout fires.
change_intersection(source, target, with_mapping, timed_out, clique_timeout) ==
    LET num_pairs == Cardinality(BinnedPairs(source, target))
        results == PairResults(source, target, timed_out)
        counter == CounterOf(results)
        mapping_source_changes == [m \in DOMAIN counter |-> {r[1][1] : r \in {x \in results : m \in x[2]}}]
        mapping_target_changes == [m \in DOMAIN counter |-> {r[1][2] : r \in {x \in results : m \in x[2]}}]
        Assemble(clique) ==
            IF clique = {} THEN EmptyIntersection
            ELSE [raised |-> merge_all(SetToSeq(clique)).raised,
                  source_changes |-> UNION {mapping_source_changes[m] : m \in clique},
                  target_changes |-> UNION {mapping_target_changes[m] : m \in clique},
                  mapping |-> merge_all(SetToSeq(clique)).obj]
    IN  IF num_pairs = 0 THEN {EmptyIntersection}
        ELSE IF with_mapping = "False" \/ (with_mapping = "None" /\ num_pairs > ExactThreshold)
        THEN {[raised |-> FALSE, source_changes |-> source \cap target,
               target_changes |-> source \cap target, mapping |-> EmptyMapping]}
        ELSE IF EscapingError(source, target, timed_out)
        THEN {[EmptyIntersection EXCEPT !.raised = TRUE]}
        ELSE IF clique_timeout THEN {EmptyIntersection}
        ELSE {Assemble(clique) :
                clique \in UNION {MaxWeightCliques(counter, nodes) : nodes \in GraphNodeSets(counter)}}

(***************************************************************************)
(* States in which a component is not in use                               *)
(***************************************************************************)
MapIdle ==
    /\ mapping = EmptyMapping
    /\ raised = FALSE

ValueIdle ==
    /\ sv = SyntheticValue(<<>>, <<>>)
    /\ primitive = <<>>
    /\ found = {}
    /\ svOp = "none"
    /\ rebinds = 0

IntersectIdle ==
    /\ ciSource = {}
    /\ ciTarget = {}
    /\ ciWithMapping = "None"
    /\ ciTimedOut = {}
    /\ ciCliqueTimeout = FALSE
    /\ ciResult = EmptyIntersection
    /\ ciDone = FALSE

SearchIdle ==
    /\ gsTasks = <<>>
    /\ gsTarget = {}
    /\ gsResidual = {}
    /\ gsResults = <<>>
    /\ gsCovered = <<>>
    /\ gsDone = FALSE

NoCall == [op |-> "none", active |-> 0, pending |-> 0, outcome |-> "none"]

TimeoutIdle ==
    /\ tmAlarm = 0
    /\ tmHandler = <<>>
    /\ tmScopes = <<>>
    /\ tmLast = NoCall

KbIdle ==
    /\ kbRows = <<>>
    /\ kbAvailable = TRUE
    /\ kbLast = [op |-> "none", outcome |-> "none", result |-> {}]

PoolIdle ==
    /\ agTodo = {}
    /\ agQueue = {}
    /\ agCounter = <<>>
    /\ agOrder = <<>>
    /\ agSourceChanges = <<>>
    /\ agTargetChanges = <<>>
    /\ agRaised = FALSE

SynthIdle ==
    /\ syCandidates = <<>>
    /\ syRunner = FALSE
    /\ syLevel = 1
    /\ syChanges = {}
    /\ syTasks = <<>>
    /\ syRounds = <<>>
    /\ syPc = "returned"

StackIdle ==
    /\ mpStates = <<>>
    /\ mpFrom = <<>>
    /\ mpMappings = {}
    /\ mpStarted = FALSE

CallIdle ==
    /\ call = [op |-> "none"]
    /\ returns = <<>>

(***************************************************************************)
(* The mapping object as a state machine                                   *)
(***************************************************************************)
\* argument values used for mappings: "", "a", "b", "ab"
MapArgs == {<<>>, <<"a">>, <<"b">>, <<"a", "b">>}
MapPairs == MapArgs \X MapArgs

\* mappings the constructor builds from one pair, and from at most two pairs
OnePairMappings == {NewMapping(<<p>>).obj : p \in MapPairs}
OperandMappings ==
    {EmptyMapping} \cup OnePairMappings \cup
    {r.obj : r \in {q \in {NewMapping(<<p1, p2>>) : p1 \in MapPairs, p2 \in MapPairs} :
                        ~q.raised}}

MappingInit ==
    /\ MapIdle
    /\ ValueIdle
    /\ IntersectIdle
    /\ SearchIdle
    /\ TimeoutIdle
    /\ StackIdle
    /\ SynthIdle
    /\ PoolIdle
    /\ KbIdle
    /\ CallIdle

\* a call whose result replaces the object unless it raised
Becomes(r) ==
    /\ raised' = r.raised
    /\ mapping' = IF r.raised THEN mapping ELSE r.obj

MappingConstruct == \E p1 \in MapPairs, p2 \in MapPairs : Becomes(NewMapping(<<p1, p2>>))

\* self.add_pair(p): the call works on the object itself, which is left in
\* the state add_pair leaves it in whether or not it raised
AddPairStep(p) ==
    /\ raised' = add_pair(mapping, p).raised
    /\ mapping' = add_pair(mapping, p).obj

MappingAddPair == \E p \in MapPairs : AddPairStep(p)

MappingMerge == \E other \in OperandMappings : Becomes(merge(mapping, other))

MappingMergeAll ==
    \E o1 \in OnePairMappings, o2 \in OnePairMappings :
        Becomes(merge_all(<<mapping, o1, o2>>))

MappingInvert == Becomes(invert(mapping))

MappingNext ==
    /\ \/ MappingConstruct
       \/ MappingAddPair
       \/ MappingMerge
       \/ MappingMergeAll
       \/ MappingInvert
    /\ UNCHANGED <<valueVars, intersectVars, searchVars, timeoutVars, callVars, kbVars, poolVars, synthVars, stackVars>>

SpecMapping == MappingInit /\ [][MappingNext]_vars

\* forward[inverse[k]] == k for every target key, inverse[forward[k]] == k
\* for every source key
IsBijection(m) ==
    /\ \A k \in DOMAIN m.target_arguments :
          /\ m.target_arguments[k] \in DOMAIN m.source_arguments
          /\ m.source_arguments[m.target_arguments[k]] = k
    /\ \A k \in DOMAIN m.source_arguments :
          /\ m.source_arguments[k] \in DOMAIN m.target_arguments
          /\ m.target_arguments[m.source_arguments[k]] = k

\* C6: after any sequence of construction, add_pair (accepted or rejected),
\* merge, merge_all and invert, the mapping is a bijection: each dictionary
\* round-trips through the other.
C6_Bijection == IsBijection(mapping)

\* C6 witness: a rejected add_pair on a mapping that holds two pairs
C6_Witness == raised /\ Cardinality(DOMAIN mapping.source_arguments) >= 2

\* the pair cannot be added: a maps elsewhere, or b is mapped from elsewhere
Conflicts(m, p) ==
    \/ (p[1] \in DOMAIN m.source_arguments /\ m.source_arguments[p[1]] # p[2])
    \/ (p[2] \in DOMAIN m.target_arguments /\ m.target_arguments[p[2]] # p[1])

\* the pair is in the mapping, in both dictionaries
Present(m, p) ==
    /\ p[1] \in DOMAIN m.source_arguments /\ m.source_arguments[p[1]] = p[2]
    /\ p[2] \in DOMAIN m.target_arguments /\ m.target_arguments[p[2]] = p[1]

\* C24: an add_pair is rejected exactly when the source maps to another
\* target or the target is mapped from another source, and then both
\* dictionaries are as they were before the call; adding a pair that is
\* present raises nothing and changes nothing.
C24_RejectedLeavesAlone ==
    [][\A p \in MapPairs :
          AddPairStep(p) =>
             /\ raised' <=> Conflicts(mapping, p)
             /\ raised' => mapping' = mapping
             /\ Present(mapping, p) => ~raised' /\ mapping' = mapping]_vars

\* C24 witness: an add_pair was rejected on a mapping of one pair, which
\* another add_pair would find present
C24_Witness ==
    /\ raised
    /\ Cardinality(DOMAIN mapping.source_arguments) = 1
    /\ \E p \in MapPairs : Conflicts(mapping, p) /\ add_pair(mapping, p).raised
    /\ \E p \in MapPairs : Present(mapping, p) /\ ~add_pair(mapping, p).raised

(***************************************************************************)
(* A synthetic value as a state machine: it is built by __init__, rebuilt  *)
(* by from_mapping, and mapped to primitives                               *)
(***************************************************************************)
MaxValueLen == 3        \* longest original_value passed to __init__
MaxPrimitiveLen == 3    \* longest primitive passed to map_to_primitive
MaxRebinds == 1         \* from_mapping calls applied on top of one __init__

\* what __init__ is called with: a value and an argument pool
LetterInputs == StringsUpTo({"a", "b"}, MaxValueLen) \X (SUBSET MapArgs)
VersionInputs ==
    StringsUpTo({"1", ".", "/"}, MaxValueLen) \X (SUBSET {<<".">>, <<"1">>, <<"1", ".", "1">>})
ValueInputs == LetterInputs \cup VersionInputs

Primitives == StringsUpTo({"a", "b"}, MaxPrimitiveLen)

ValueInit ==
    /\ MapIdle
    /\ ValueIdle
    /\ IntersectIdle
    /\ SearchIdle
    /\ TimeoutIdle
    /\ StackIdle
    /\ SynthIdle
    /\ PoolIdle
    /\ KbIdle
    /\ CallIdle

\* sv = SyntheticValue(original_value=..., arguments=...)
ValueConstruct ==
    /\ svOp = "none"
    /\ \E in \in ValueInputs :
        \E order \in SortedOrders(CandidateArguments(in[1], in[2])) :
            /\ sv' = SyntheticValue(in[1], order)
            /\ svOp' = "init"
            /\ rebinds' = 0
            /\ found' = {}
            /\ primitive' = <<>>

\* sv = sv.from_mapping(m), m a mapping just found or a mapping of some or all
\* of the arguments of sv
ValueFromMapping ==
    /\ rebinds < MaxRebinds
    /\ \E m \in found \cup {o \in OperandMappings : DOMAIN o.source_arguments \subseteq sv.arguments} :
        /\ sv' = from_mapping(sv, m)
        /\ svOp' = "from_mapping"
        /\ rebinds' = rebinds + 1
        /\ found' = {}
        /\ primitive' = <<>>

\* found = sv.map_to_primitive(other)
ValueMapToPrimitive ==
    \E other \in Primitives :
        /\ primitive' = other
        /\ found' = map_to_primitive(sv, other)
        /\ svOp' = "map_to_primitive"
        /\ UNCHANGED <<sv, rebinds>>

ValueNext ==
    /\ \/ ValueConstruct
       \/ ValueFromMapping
       \/ ValueMapToPrimitive
    /\ UNCHANGED <<mapVars, intersectVars, searchVars, timeoutVars, callVars, kbVars, poolVars, synthVars, stackVars>>

SpecValue == ValueInit /\ [][ValueNext]_vars

(***************************************************************************)
(* change_intersection as a state machine: the initial state holds the     *)
(* arguments of one call, the action makes the call                        *)
(***************************************************************************)
MaxFieldLen == 2        \* longest primitive of a change field
MaxChanges == 2         \* most changes in the source and in the target set

\* a primitive: a str, or an int written in decimal
StrPrimitive(s) == [original_type |-> "str", original_value |-> s]
IntPrimitive(s) == [original_type |-> "int", original_value |-> s]

\* SyntheticValue(original_value=arg, arguments=arguments) for every order
\* the constructor's sort can take; original_type is type(original_value)
SyntheticValues(arg, arguments) ==
    {[SyntheticValue(arg.original_value, order) EXCEPT !.original_type = arg.original_type] :
        order \in SortedOrders(CandidateArguments(arg.original_value, arguments))}

\* cls.from_primitives(*args, arguments=arguments) for a variant whose fields
\* are all synthetic values
from_primitives(type, args, arguments) ==
    {[type |-> type, fields |-> fields, changes |-> <<>>, container |-> "tuple"] :
        fields \in Product([i \in 1..Len(args) |-> SyntheticValues(args[i], arguments)])}

FieldPrimitives == StringsUpTo({"a", "b"}, MaxFieldLen) \ {<<>>}
KeyPrimitives == {<<"a">>, <<"b">>}

\* the primitives of the changes: FileAdd(path) and EnvSet(key, value)
ChangePrimitives ==
    {<<"FileAdd", <<StrPrimitive(path)>>>> : path \in FieldPrimitives}
    \cup {<<"EnvSet", <<StrPrimitive(key), value>>>> :
              key \in KeyPrimitives, value \in {StrPrimitive(v) : v \in KeyPrimitives} \cup {IntPrimitive(<<"1">>)}}

\* the argument pools of the task the source changes belong to
ArgumentPools == {{}, {<<"a">>}, {<<"a">>, <<"b">>}}

\* the change sets of at most MaxChanges changes decomposed over one pool
ChangeSets(arguments) ==
    LET lifted == UNION {from_primitives(c[1], c[2], arguments) : c \in ChangePrimitives}
    IN  {S \in SUBSET lifted : Cardinality(S) <= MaxChanges}

IntersectInit ==
    /\ MapIdle
    /\ ValueIdle
    /\ SearchIdle
    /\ TimeoutIdle
    /\ StackIdle
    /\ SynthIdle
    /\ PoolIdle
    /\ KbIdle
    /\ CallIdle
    /\ \E arguments \in ArgumentPools : ciSource \in ChangeSets(arguments)
    /\ ciTarget \in ChangeSets({})
    /\ ciWithMapping \in {"None", "True", "False"}
    /\ ciTimedOut = {}
    /\ ciCliqueTimeout = FALSE
    /\ ciResult = EmptyIntersection
    /\ ciDone = FALSE

\* whether the call maps pairs at all: not for an empty product, not in
\* exact mode
MapsPairs(source, target, with_mapping) ==
    /\ BinnedPairs(source, target) # {}
    /\ ~(with_mapping = "False"
         \/ (with_mapping = "None" /\ Cardinality(BinnedPairs(source, target)) > ExactThreshold))

\* ConfigurationChange.change_intersection(source, target, with_mapping)
ChangeIntersection ==
    /\ ~ciDone
    /\ \E timed_out \in SUBSET BinnedPairs(ciSource, ciTarget), clique_timeout \in BOOLEAN :
          /\ ~MapsPairs(ciSource, ciTarget, ciWithMapping) =>
                timed_out = {} /\ ~clique_timeout
          /\ ciTimedOut' = timed_out
          /\ ciCliqueTimeout' = clique_timeout
          /\ ciResult' \in change_intersection(ciSource, ciTarget, ciWithMapping,
                                               timed_out, clique_timeout)
    /\ ciDone' = TRUE
    /\ UNCHANGED <<ciSource, ciTarget, ciWithMapping>>

IntersectNext ==
    /\ ChangeIntersection
    /\ UNCHANGED <<mapVars, valueVars, searchVars, timeoutVars, callVars, kbVars, poolVars, synthVars, stackVars>>

SpecIntersect == IntersectInit /\ [][IntersectNext]_vars

(***************************************************************************)
(* Timeout: the context manager over signal.alarm, as a state machine of   *)
(* one thread that enters and leaves scopes while the alarm clock runs     *)
(***************************************************************************)
MaxSeconds == 2         \* longest duration of a Timeout
MaxDepth == 3           \* most scopes entered and not yet exited

Durations == 0..MaxSeconds

\* an exception raised while the scopes are active is caught in the body of
\* the k-th scope (k = 0: outside all of them); every scope above the k-th
\* is left through __exit__
Unwind(scopes, k) == SubSeq(scopes, 1, k)

\* the alarm after the unwinding: __exit__ calls signal.alarm(0)
AlarmAfterUnwind(scopes, k, alarm) == IF k < Len(scopes) THEN 0 ELSE alarm

\* if time_remaining: raise RuntimeError
RaisesNested(time_remaining) == time_remaining # 0

\* Timeout(seconds).__enter__(): installs the handler, sets the alarm, and
\* raises RuntimeError if an alarm was pending
TimeoutEnter ==
    /\ Len(tmScopes) < MaxDepth
    /\ \E seconds \in Durations :
          /\ tmHandler' = <<seconds>>
          /\ IF RaisesNested(tmAlarm)
             THEN \E k \in 0..Len(tmScopes) :
                    /\ tmScopes' = Unwind(tmScopes, k)
                    /\ tmAlarm' = AlarmAfterUnwind(tmScopes, k, seconds)
                    /\ tmLast' = [op |-> "enter", active |-> Len(tmScopes),
                                  pending |-> tmAlarm, outcome |-> "RuntimeError"]
             ELSE /\ tmScopes' = Append(tmScopes, seconds)
                  /\ tmAlarm' = seconds
                  /\ tmLast' = [op |-> "enter", active |-> Len(tmScopes),
                                pending |-> tmAlarm, outcome |-> "entered"]

\* the body of the innermost scope ends: __exit__ calls signal.alarm(0)
TimeoutExit ==
    /\ tmScopes # <<>>
    /\ tmScopes' = Unwind(tmScopes, Len(tmScopes) - 1)
    /\ tmAlarm' = 0
    /\ tmLast' = [op |-> "exit", active |-> Len(tmScopes),
                  pending |-> tmAlarm, outcome |-> "exited"]
    /\ UNCHANGED tmHandler

\* a second passes without the alarm becoming due
TimeoutTick ==
    /\ tmAlarm > 1
    /\ tmAlarm' = tmAlarm - 1
    /\ UNCHANGED <<tmHandler, tmScopes, tmLast>>

\* the alarm becomes due: handle_timeout raises TimeoutError in the thread
TimeoutFire ==
    /\ tmAlarm = 1
    /\ \E k \in 0..Len(tmScopes) :
          /\ tmScopes' = Unwind(tmScopes, k)
          /\ tmLast' = [op |-> "alarm", active |-> Len(tmScopes),
                        pending |-> tmAlarm, outcome |-> "TimeoutError"]
    /\ tmAlarm' = 0
    /\ UNCHANGED tmHandler

TimeoutInit ==
    /\ MapIdle
    /\ ValueIdle
    /\ IntersectIdle
    /\ SearchIdle
    /\ TimeoutIdle
    /\ StackIdle
    /\ SynthIdle
    /\ PoolIdle
    /\ KbIdle
    /\ CallIdle

TimeoutNext ==
    /\ \/ TimeoutEnter
       \/ TimeoutExit
       \/ TimeoutTick
       \/ TimeoutFire
    /\ UNCHANGED <<mapVars, valueVars, intersectVars, searchVars, callVars, kbVars, poolVars, synthVars, stackVars>>

SpecTimeout == TimeoutInit /\ [][TimeoutNext]_vars

(***************************************************************************)
(* ConfigurationTask (shell tasks: a tuple of string arguments)            *)
(***************************************************************************)
Range(s) == {s[i] : i \in 1..Len(s)}

\* ConfigurationTask(system, executable, arguments, changes) for changes
\* given as primitives: the changes are decomposed over the arguments
ConfigurationTasks(executable, arguments, primitives) ==
    LET lifted == [c \in primitives |-> from_primitives(c[1], c[2], Range(arguments))]
    IN  {[executable |-> executable, arguments |-> arguments,
          configuration_task_arguments |-> Range(arguments),
          changes |-> {f[c] : c \in primitives}] :
            f \in {g \in [primitives -> UNION {lifted[c] : c \in primitives}] :
                      \A c \in primitives : g[c] \in lifted[c]}}

\* task.from_mapping(mapping) for arguments with the identity transformer
task_from_mapping(self, m) ==
    LET arguments == [i \in 1..Len(self.arguments) |->
                        IF self.arguments[i] \in DOMAIN m.source_arguments
                        THEN m.source_arguments[self.arguments[i]]
                        ELSE self.arguments[i]]
    IN  [executable |-> self.executable, arguments |-> arguments,
         configuration_task_arguments |-> Range(arguments),
         changes |-> {change_from_mapping(c, m) : c \in self.changes}]

(***************************************************************************)
(* get_task_set: the covering search.  synth/synthesis/search.py is not    *)
(* part of the sources at hand; the definitions of this section follow the *)
(* specification's section 4.6 and tests/synth/synthesis/test_search.py.   *)
(***************************************************************************)
MaxTasks == 2           \* most candidate tasks of the knowledge base
MaxTargets == 3         \* most changes of the target set

\* the intersections a candidate can have with the residual (no timeouts)
Intersections(task, R) == change_intersection(task.changes, R, "None", {}, FALSE)

\* the arguments of the task that the mapping leaves unbound
Unbound(task, m) == task.configuration_task_arguments \ DOMAIN m.source_arguments

\* candidate i with intersection x is the greedy choice among the candidates
\* with their intersections xs: largest source subset, then fewer unbound
\* arguments, then task order
Preferred(tasks, xs, i) ==
    /\ xs[i].source_changes # {}
    /\ \A k \in 1..Len(tasks) :
          LET a == Cardinality(xs[i].source_changes)
              b == Cardinality(xs[k].source_changes)
              ua == Cardinality(Unbound(tasks[i], xs[i].mapping))
              ub == Cardinality(Unbound(tasks[k], xs[k].mapping))
          IN  \/ a > b
              \/ a = b /\ ua < ub
              \/ a = b /\ ua = ub /\ i <= k

\* the result keeps the task as the knowledge base has it
UnboundResult(task, m) ==
    [task |-> task, original_task |-> task, mapping |-> m]

\* the search result for a chosen candidate: the bound task T.from_mapping(m)
SearchResult(task, m) ==
    [task |-> task_from_mapping(task, m), original_task |-> task, mapping |-> m]

\* the residual is left as it is
KeepCovered(R, covered) == R

\* remove the covered target changes from R
RemoveCovered(R, covered) == R \ covered

\* the argument tuples and the changes of the tasks of the knowledge base
TaskArguments == {<<>>, <<<<"a">>>>, <<<<"a">>, <<"b">>>>}
TaskPrimitives == {<<"FileAdd", <<StrPrimitive(path)>>>> : path \in MapArgs \ {<<>>}}
Executables == <<"cp", "mkdir", "rm", "touch">>

\* the tasks with an executable, one or two changes
KnowledgeBaseTasks(executable) ==
    UNION {ConfigurationTasks(executable, arguments, primitives) :
              arguments \in TaskArguments,
              primitives \in {P \in SUBSET TaskPrimitives : Cardinality(P) \in 1..MaxChanges}}

\* the candidate lists: up to MaxTasks tasks in task order
CandidateLists ==
    UNION {{tasks \in [1..n -> UNION {KnowledgeBaseTasks(Executables[k]) : k \in 1..n}] :
              \A k \in 1..n : tasks[k].executable = Executables[k]} :
           n \in 1..Min(MaxTasks, Len(Executables))}

\* the target sets: concrete changes
TargetSets ==
    {S \in SUBSET UNION {from_primitives(c[1], c[2], {}) : c \in TaskPrimitives} :
        Cardinality(S) \in 1..MaxTargets}

SearchInit ==
    /\ MapIdle
    /\ ValueIdle
    /\ IntersectIdle
    /\ TimeoutIdle
    /\ StackIdle
    /\ SynthIdle
    /\ PoolIdle
    /\ KbIdle
    /\ CallIdle
    /\ gsTasks \in CandidateLists
    /\ gsTarget \in TargetSets
    /\ gsResidual = gsTarget
    /\ gsResults = <<>>
    /\ gsCovered = <<>>
    /\ gsDone = FALSE

\* one round of the greedy selection: intersect every candidate with the
\* residual, take the preferred one, bind it and remove what it covers
SearchSelect ==
    /\ ~gsDone
    /\ gsResidual # {}
    /\ \E xs \in Product([k \in 1..Len(gsTasks) |-> Intersections(gsTasks[k], gsResidual)]) :
       \E i \in 1..Len(gsTasks) :
          /\ Preferred(gsTasks, xs, i)
          /\ gsResults' = Append(gsResults, SearchResult(gsTasks[i], xs[i].mapping))
          /\ gsCovered' = Append(gsCovered, xs[i].target_changes)
          /\ gsResidual' = RemoveCovered(gsResidual, xs[i].target_changes)
    /\ UNCHANGED <<gsTasks, gsTarget, gsDone>>

\* the search stops: the residual is empty or no candidate covers a change
SearchStop ==
    /\ ~gsDone
    /\ \/ gsResidual = {}
       \/ \E xs \in Product([k \in 1..Len(gsTasks) |-> Intersections(gsTasks[k], gsResidual)]) :
             \A k \in 1..Len(gsTasks) : xs[k].source_changes = {}
    /\ gsDone' = TRUE
    /\ UNCHANGED <<gsTasks, gsTarget, gsResidual, gsResults, gsCovered>>

SearchNext ==
    /\ \/ SearchSelect
       \/ SearchStop
    /\ UNCHANGED <<mapVars, valueVars, intersectVars, timeoutVars, callVars, kbVars, poolVars, synthVars, stackVars>>

SpecSearch == SearchInit /\ [][SearchNext]_vars

RECURSIVE Substitute(_, _)
Substitute(parts, f) ==
    IF parts = <<>> THEN <<>>
    ELSE (IF Head(parts).is_arg THEN f[Head(parts).value] ELSE Head(parts).value)
         \o Substitute(Tail(parts), f)

Substrings(s) == {Slice(s, i, j) : i \in 0..Len(s), j \in 0..Len(s)}

\* an assignment of strings to arguments is valid for (v, other): one-to-one,
\* and substituted into v.parts it gives other
ValidAssignment(v, other, f) ==
    /\ \A a, b \in DOMAIN f : a # b => f[a] # f[b]
    /\ Substitute(v.parts, f) = other

\* the mapping object that holds the assignment f
MappingOf(f) ==
    [source_arguments |-> f,
     target_arguments |-> [b \in {f[a] : a \in DOMAIN f} |-> CHOOSE a \in DOMAIN f : f[a] = b]]

\* under f every argument occurrence of v starts before the end of other
StartsBeforeEnd(v, other, f) ==
    \A i \in 1..Len(v.parts) :
        v.parts[i].is_arg => Len(Substitute(SubSeq(v.parts, 1, i - 1), f)) < Len(other)

\* C5: every mapping map_to_primitive returns binds exactly the arguments of
\* v, binds no two arguments to the same string, and gives exactly the
\* primitive when each argument occurrence in v.parts is replaced by its string.
C5_Sound ==
    svOp = "map_to_primitive" =>
        \A m \in found :
            /\ DOMAIN m.source_arguments = sv.arguments
            /\ IsBijection(m)
            /\ ValidAssignment(sv, primitive, m.source_arguments)

\* C5 witness: a value with two arguments was mapped to a different primitive
\* in more than one way
C5_Witness ==
    /\ svOp = "map_to_primitive"
    /\ primitive # sv.original_value
    /\ Cardinality(sv.arguments) = 2
    /\ Cardinality(found) >= 2

\* C4 as claimed: every valid assignment of substrings of the primitive
\* (possibly empty) to the arguments of v is among the mappings returned.
C4_AllValid ==
    svOp = "map_to_primitive" =>
        \A f \in [sv.arguments -> Substrings(primitive)] :
            ValidAssignment(sv, primitive, f) => MappingOf(f) \in found

\* C4 amended: for a primitive other than v.original_value, every valid
\* assignment under which each argument occurrence starts before the end of
\* the primitive is among the mappings returned; for v.original_value itself
\* the identity mapping on the arguments of v is returned.
C4_AllValidBeforeEnd ==
    svOp = "map_to_primitive" =>
        IF primitive = sv.original_value
        THEN found = {MappingOf([a \in sv.arguments |-> a])}
        ELSE \A f \in [sv.arguments -> Substrings(primitive)] :
                ValidAssignment(sv, primitive, f) /\ StartsBeforeEnd(sv, primitive, f)
                    => MappingOf(f) \in found

\* exactly the assignments of C4_AllValidBeforeEnd are returned
C4_Exact ==
    svOp = "map_to_primitive" /\ primitive # sv.original_value =>
        found = {MappingOf(f) : f \in {g \in [sv.arguments -> Substrings(primitive)] :
                    ValidAssignment(sv, primitive, g) /\ StartsBeforeEnd(sv, primitive, g)}}

\* C4 witness: two consecutive arguments were mapped to a longer primitive,
\* one of them to the empty string
C4_Witness ==
    /\ svOp = "map_to_primitive"
    /\ primitive # sv.original_value
    /\ \E i \in 1..(Len(sv.parts) - 1) :
          /\ sv.parts[i].is_arg /\ sv.parts[i + 1].is_arg
          /\ sv.parts[i].value # sv.parts[i + 1].value
    /\ \E m \in found : \E a \in sv.arguments : m.source_arguments[a] = <<>>
    /\ Cardinality(found) >= 3

(***************************************************************************)
(* Properties of change_intersection                                       *)
(***************************************************************************)
\* the field values of a change: variant, original values, rows
ValuesOf(c) ==
    [type |-> c.type,
     fields |-> [i \in 1..Len(c.fields) |->
                    <<c.fields[i].original_type, c.fields[i].original_value>>],
     changes |-> IF c.container = "frozenset"
                 THEN {<<row.change_type, row.content.original_value>> : row \in c.changes}
                 ELSE [i \in 1..Len(c.changes) |->
                         <<c.changes[i].change_type, c.changes[i].content.original_value>>]]

\* s rewritten with m has the field values of t
MapsTo(s, m, t) == ValuesOf(change_from_mapping(s, m)) = ValuesOf(t)

\* the call was made in mapping mode
MappingModeCall == ciDone /\ ciWithMapping # "False"

\* the call was made in mapping mode and returned a triple
ReturnedTriple == MappingModeCall /\ ~ciResult.raised

UntimedCall == ReturnedTriple /\ ciTimedOut = {} /\ ~ciCliqueTimeout

\* the arguments of the source changes, and the strings they can be bound to
SourceArguments ==
    UNION {UNION {s.fields[i].arguments : i \in 1..Len(s.fields)} : s \in ciSource}
TargetStrings ==
    {<<>>} \cup UNION {UNION {Substrings(u.fields[i].original_value) : i \in 1..Len(u.fields)} :
                          u \in ciTarget}

\* the valid mappings of the source arguments: one-to-one assignments
ArgumentMappings ==
    {MappingOf(f) : f \in {g \in [SourceArguments -> TargetStrings] :
                              \A a, b \in SourceArguments : a # b => g[a] # g[b]}}

\* the source changes that a mapping maps to changes of the target
MappedBy(m) == {s \in ciSource : \E u \in ciTarget : MapsTo(s, m, u)}

FoundCounter == CounterOf(PairResults(ciSource, ciTarget, {}))

\* the source changes of the pairs that gave one of the mappings in K
SourcesOf(K) ==
    {p[1] : p \in {q \in BinnedPairs(ciSource, ciTarget) :
                      K \cap map_to_other(q[1], q[2]).mappings # {}}}

UntimedPairs == BinnedPairs(ciSource, ciTarget) \ ciTimedOut

\* C3: the call does not raise and returns a triple with a valid mapping
\* whichever pairs time out or hit a type error and whether or not the
\* clique search times out; a pair that timed out contributes nothing, the
\* other pairs are still processed, and a clique search that timed out gives
\* the empty triple.
C3_Total ==
    ciDone =>
        /\ ~ciResult.raised
        /\ IsBijection(ciResult.mapping)
        /\ ciResult.source_changes \subseteq ciSource
        /\ ciResult.target_changes \subseteq ciTarget
        /\ ciCliqueTimeout => ciResult = EmptyIntersection
        /\ MappingModeCall =>
              \A s \in ciResult.source_changes :
                  \E p \in UntimedPairs :
                      /\ p[1] = s
                      /\ p[2] \in ciResult.target_changes
                      /\ \E m \in map_to_other(p[1], p[2]).mappings :
                            ~merge(m, ciResult.mapping).raised
        /\ (/\ MapsPairs(ciSource, ciTarget, ciWithMapping)
            /\ ~ciCliqueTimeout
            /\ \E p \in UntimedPairs : map_to_other(p[1], p[2]).mappings # {})
           => ciResult.source_changes # {}

\* C3 for the calls in which no pair has values of different types: for
\* them all of C3_Total holds
C3_TotalForMatchingTypes ==
    (\A p \in BinnedPairs(ciSource, ciTarget) : ~map_to_other(p[1], p[2]).value_error)
        => C3_Total

(***************************************************************************)
(* Properties of Timeout                                                   *)
(***************************************************************************)
\* C9: entering a Timeout scope while another scope is still active always
\* fails with RuntimeError, whatever the durations of the two scopes.
C9_NestedAlwaysRaises ==
    (tmLast.op = "enter" /\ tmLast.active > 0) => tmLast.outcome = "RuntimeError"

\* C27: an enter that is rejected with RuntimeError and caught inside the
\* active scope leaves the pending alarm and the installed handler as they
\* were, so that the outer scope times out at its own time with its own
\* message.
C27_OuterDeadlineKept ==
    [][(TimeoutEnter /\ tmLast'.outcome = "RuntimeError" /\ tmScopes' = tmScopes)
          => (tmAlarm' = tmAlarm /\ tmHandler' = tmHandler)]_vars

\* a rejected enter leaves the alarm and the handler of the Timeout that was
\* rejected
C27_InnerDeadlineInstalled ==
    [][(TimeoutEnter /\ tmLast'.outcome = "RuntimeError" /\ tmScopes' = tmScopes)
          => \E seconds \in Durations : tmAlarm' = seconds /\ tmHandler' = <<seconds>>]_vars

(***************************************************************************)
(* Properties of the covering search                                       *)
(***************************************************************************)
\* the target changes covered by the first n results
CoveredBy(n) == UNION {gsCovered[k] : k \in 1..n}

\* one candidate with one change that maps to every change of a target of
\* at least two changes: it covers them only one at a time, each under
\* another mapping
OneTaskManyBindings ==
    /\ Len(gsTasks) = 1
    /\ Cardinality(gsTasks[1].changes) = 1
    /\ Cardinality(gsTarget) >= 2
    /\ \A s \in gsTasks[1].changes : \A u \in gsTarget : map_to_other(s, u).mappings # {}

\* C7: every result carries task == original_task.from_mapping(mapping); and
\* when one candidate covers the parts of the target only under different
\* mappings, the finished search has one result per binding, all of that
\* task, with different mappings, and an empty residual.
C7_TaskReused ==
    /\ \A k \in 1..Len(gsResults) :
          gsResults[k].task
              = task_from_mapping(gsResults[k].original_task, gsResults[k].mapping)
    /\ (gsDone /\ OneTaskManyBindings) =>
          /\ Len(gsResults) = Cardinality(gsTarget)
          /\ \A k \in 1..Len(gsResults) : gsResults[k].original_task = gsTasks[1]
          /\ \A k, l \in 1..Len(gsResults) :
                k # l => gsResults[k].mapping # gsResults[l].mapping
          /\ gsResidual = {}

\* a finished search that used one task twice under two mappings that each
\* rename the argument, and left nothing over
C7_Witness ==
    /\ gsDone
    /\ OneTaskManyBindings
    /\ Len(gsResults) >= 2
    /\ gsResults[1].original_task = gsResults[2].original_task
    /\ gsResults[1].mapping # gsResults[2].mapping
    /\ gsResults[1].task # gsResults[1].original_task
    /\ gsResidual = {}

\* C8: every result covers at least one target change that no earlier result
\* covered, so there are never more results than target changes; and the
\* search has stopped exactly when the residual is empty or no candidate
\* covers a change of it.
C8_Progress ==
    /\ \A k \in 1..Len(gsResults) :
          /\ gsCovered[k] # {}
          /\ gsCovered[k] \subseteq gsTarget
          /\ gsCovered[k] \cap CoveredBy(k - 1) = {}
    /\ gsResidual = gsTarget \ CoveredBy(Len(gsResults))
    /\ Len(gsResults) <= Cardinality(gsTarget)
    /\ gsDone =>
          \/ gsResidual = {}
          \/ \E xs \in Product([k \in 1..Len(gsTasks) |->
                                   Intersections(gsTasks[k], gsResidual)]) :
                \A k \in 1..Len(gsTasks) : xs[k].source_changes = {}

\* a search that selected as many results as there are target changes, from
\* two tasks, and then stopped
C8_Witness ==
    /\ gsDone
    /\ Len(gsResults) = Cardinality(gsTarget)
    /\ Len(gsResults) >= 2
    /\ \E k, l \in 1..Len(gsResults) :
          gsResults[k].original_task # gsResults[l].original_task

(***************************************************************************)
(* SyntheticValue.__init__ called more than once on the same primitive and *)
(* the same argument pool.  The pool is a frozenset, so each call          *)
(* enumerates it in an order of its own; sorted() is stable and orders     *)
(* only by the length of the value.                                        *)
(***************************************************************************)
MaxRuns == 2

\* argument values of the pools: "a", "b", "ab", "ba"
DecomposePools == SUBSET {<<"a">>, <<"b">>, <<"a", "b">>, <<"b", "a">>}

DecomposeInit ==
    /\ MapIdle
    /\ ValueIdle
    /\ IntersectIdle
    /\ SearchIdle
    /\ TimeoutIdle
    /\ StackIdle
    /\ SynthIdle
    /\ PoolIdle
    /\ KbIdle
    /\ \E s \in StringsUpTo({"a", "b"}, MaxValueLen), P \in DecomposePools :
          call = [op |-> "SyntheticValue", original_value |-> s, arguments |-> P]
    /\ returns = <<>>

\* SyntheticValue(original_value=s, arguments=P), the pool enumerated in
\* any order
Construct ==
    /\ Len(returns) < MaxRuns
    /\ \E order \in SortedOrders(CandidateArguments(call.original_value, call.arguments)) :
          returns' = Append(returns, SyntheticValue(call.original_value, order))
    /\ UNCHANGED call

DecomposeNext ==
    /\ Construct
    /\ UNCHANGED <<mapVars, valueVars, intersectVars, searchVars, timeoutVars, kbVars, poolVars, synthVars, stackVars>>

SpecDecompose == DecomposeInit /\ [][DecomposeNext]_vars

\* C11: the decomposition is canonical: every construction from the same
\* primitive and the same pool has the same parts and the same arguments,
\* whatever order the pool is enumerated in.
C11_Canonical ==
    \A i \in 1..Len(returns), j \in 1..Len(returns) :
        /\ returns[i].parts = returns[j].parts
        /\ returns[i].arguments = returns[j].arguments

\* C11 for pools in which no two arguments of equal length both occur in the
\* primitive: the longest-first order then decides every split.
C11_CanonicalWithoutTies ==
    (\A a \in call.arguments, b \in call.arguments :
        (a # b /\ Len(a) = Len(b)) =>
            (Find(call.original_value, a, 0) = -1 \/ Find(call.original_value, b, 0) = -1))
    => C11_Canonical

(***************************************************************************)
(* change_intersection called more than once with equal source and target  *)
(* sets.  No Timeout fires in these calls: what may differ between them is *)
(* the order in which the sets, the Counter and the graph are iterated.    *)
(***************************************************************************)
RepeatInit ==
    /\ MapIdle
    /\ ValueIdle
    /\ IntersectIdle
    /\ SearchIdle
    /\ TimeoutIdle
    /\ StackIdle
    /\ SynthIdle
    /\ PoolIdle
    /\ KbIdle
    /\ \E arguments \in ArgumentPools :
       \E source \in ChangeSets(arguments), target \in ChangeSets({}),
          with_mapping \in {"None", "True", "False"} :
          call = [op |-> "change_intersection", source |-> source, target |-> target,
                  with_mapping |-> with_mapping]
    /\ returns = <<>>

\* ConfigurationChange.change_intersection(source, target, with_mapping)
Intersect ==
    /\ Len(returns) < MaxRuns
    /\ \E result \in change_intersection(call.source, call.target, call.with_mapping, {}, FALSE) :
          returns' = Append(returns, result)
    /\ UNCHANGED call

RepeatNext ==
    /\ Intersect
    /\ UNCHANGED <<mapVars, valueVars, intersectVars, searchVars, timeoutVars, kbVars, poolVars, synthVars, stackVars>>

SpecRepeat == RepeatInit /\ [][RepeatNext]_vars

\* C12: change_intersection is deterministic: two calls with equal source
\* and target sets return equal triples, whatever the iteration order of the
\* sets and whichever of several equally frequent mappings is met first.
C12_Deterministic ==
    \A i \in 1..Len(returns), j \in 1..Len(returns) :
        (~returns[i].raised /\ ~returns[j].raised) => returns[i] = returns[j]

\* C12 for the calls whose graph has one clique of maximum weight: they
\* return the same triple every time.
C12_DeterministicWithoutTies ==
    (\A nodes \in GraphNodeSets(CounterOf(PairResults(call.source, call.target, {}))) :
        Cardinality(MaxWeightCliques(CounterOf(PairResults(call.source, call.target, {})), nodes)) <= 1)
    => C12_Deterministic

(***************************************************************************)
(* A synthetic value rebound with a mapping and then with its inverse      *)
(***************************************************************************)
\* the mappings over the arguments of v: every source is an argument of v
MappingsOver(v) == {m \in OperandMappings : DOMAIN m.source_arguments \subseteq v.arguments}

RoundTripInit ==
    /\ MapIdle
    /\ ValueIdle
    /\ IntersectIdle
    /\ SearchIdle
    /\ TimeoutIdle
    /\ StackIdle
    /\ SynthIdle
    /\ PoolIdle
    /\ KbIdle
    /\ \E in \in LetterInputs :
       \E order \in SortedOrders(CandidateArguments(in[1], in[2])) :
       \E m \in MappingsOver(SyntheticValue(in[1], order)) :
          call = [op |-> "from_mapping", v |-> SyntheticValue(in[1], order), m |-> m]
    /\ returns = <<>>

\* v.from_mapping(m)
Rebind ==
    /\ returns = <<>>
    /\ returns' = <<from_mapping(call.v, call.m)>>
    /\ UNCHANGED call

\* v.from_mapping(m).from_mapping(m.invert())
RebindInverse ==
    /\ Len(returns) = 1
    /\ returns' = Append(returns, from_mapping(returns[1], invert(call.m).obj))
    /\ UNCHANGED call

RoundTripNext ==
    /\ \/ Rebind
       \/ RebindInverse
    /\ UNCHANGED <<mapVars, valueVars, intersectVars, searchVars, timeoutVars, kbVars, poolVars, synthVars, stackVars>>

SpecRoundTrip == RoundTripInit /\ [][RoundTripNext]_vars

\* the arguments of v that m does not map
Unmapped(v, m) == v.arguments \ DOMAIN m.source_arguments

\* C13 as stated: for every synthetic value v and every mapping m over its
\* arguments, partial or not, v.from_mapping(m).from_mapping(m.invert()) == v.
C13_RoundTrip ==
    Len(returns) = 2 => returns[2] = call.v

\* C13 amended: the round trip gives v back when no argument of v that m
\* leaves unmapped is a target of m; this includes every mapping that maps
\* all of v's arguments.
C13_RoundTripUnlessCaptured ==
    (/\ Len(returns) = 2
     /\ Unmapped(call.v, call.m) \cap DOMAIN call.m.target_arguments = {})
    => returns[2] = call.v

\* C13 witness: a partial mapping was applied and inverted: v has two
\* arguments, m maps one of them to a different value, and the inverse has
\* been applied
C13_Witness ==
    /\ Len(returns) = 2
    /\ Cardinality(call.v.arguments) = 2
    /\ Cardinality(DOMAIN call.m.source_arguments) = 1
    /\ returns[1] # call.v
    /\ returns[2] = call.v

(***************************************************************************)
(* serialization.py: SynthJSONEncoder and from_dict on configuration tasks *)
(***************************************************************************)
\* SynthJSONEncoder.default on a change: its type name and, for each field,
\* the original value of the synthetic value (a JSON string or number)
EncodeChange(c) ==
    <<c.type, [i \in 1..Len(c.fields) |->
                  [original_type |-> c.fields[i].original_type,
                   original_value |-> c.fields[i].original_value]]>>

\* SynthJSONEncoder.default on a task: the arguments as a list, the changes
\* as the list of their encodings
Encode(task) ==
    [type |-> "ConfigurationTask",
     value |-> [executable |-> task.executable,
                arguments |-> task.arguments,
                changes |-> {EncodeChange(c) : c \in task.changes}]]

\* from_dict: the changes are rebuilt with from_primitives, then the task
\* with its constructor, which decomposes them over the decoded arguments
Decode(d) == ConfigurationTasks(d.value.executable, d.value.arguments, d.value.changes)

\* the tasks that are encoded: built by the constructor, or bound by
\* from_mapping with a mapping over the task's arguments
SerializedTasks ==
    LET unbound == KnowledgeBaseTasks("touch")
    IN  {[task |-> t, bound |-> FALSE] : t \in unbound}
        \cup {[task |-> task_from_mapping(t[1], t[2]), bound |-> TRUE] :
                t \in {x \in unbound \X OnePairMappings :
                         DOMAIN x[2].source_arguments \subseteq x[1].configuration_task_arguments}}

SerializeInit ==
    /\ MapIdle
    /\ ValueIdle
    /\ IntersectIdle
    /\ SearchIdle
    /\ TimeoutIdle
    /\ StackIdle
    /\ SynthIdle
    /\ PoolIdle
    /\ KbIdle
    /\ \E t \in SerializedTasks :
          call = [op |-> "encode", task |-> t.task, bound |-> t.bound]
    /\ returns = <<>>

\* encoder.encode(task)
EncodeTask ==
    /\ returns = <<>>
    /\ returns' = <<Encode(call.task)>>
    /\ UNCHANGED call

\* json.loads(..., object_hook=from_dict)
DecodeTask ==
    /\ Len(returns) = 1
    /\ \E task \in Decode(returns[1]) : returns' = Append(returns, task)
    /\ UNCHANGED call

SerializeNext ==
    /\ \/ EncodeTask
       \/ DecodeTask
    /\ UNCHANGED <<mapVars, valueVars, intersectVars, searchVars, timeoutVars, kbVars, poolVars, synthVars, stackVars>>

SpecSerialize == SerializeInit /\ [][SerializeNext]_vars

\* the dataclass equality of two tasks: executable, arguments and changes
SameTask(t, u) ==
    /\ t.executable = u.executable
    /\ t.arguments = u.arguments
    /\ t.changes = u.changes

\* C14: for every task, bound by from_mapping or not, decoding its JSON
\* encoding gives a task equal to it.
C14_RoundTrip ==
    Len(returns) = 2 => SameTask(returns[2], call.task)

\* C14 for the tasks built by the constructor: decoding the encoding gives
\* an equal task.
C14_RoundTripUnbound ==
    (Len(returns) = 2 /\ ~call.bound) => SameTask(returns[2], call.task)

(***************************************************************************)
(* ConfigurationTask.from_mapping on the task's arguments.  Here an        *)
(* argument carries its transformer and its pre_transform_value, and a     *)
(* mapping is the list of its (source, target) pairs in the order of the   *)
(* dict source_arguments.  The leaves of a nested mapping are listed in    *)
(* the order the node stack visits them; each leaf is rewritten on its own.*)
(***************************************************************************)
MaxLeaves == 2

\* _undo_path_replacement: value.replace('/', '.')
undo_path_replacement(value) == [i \in 1..Len(value) |-> IF value[i] = "/" THEN "." ELSE value[i]]

\* source_arg.transformer(value)
Transform(source_arg, value) ==
    IF source_arg.transformer = "_undo_path_replacement" THEN undo_path_replacement(value)
    ELSE value

\* ConfigurationTaskArgument(original_value, transformer, pre_transform_value);
\* the pre_transform_value None is <<"None">>, which no str equals
TaskArgument(value, transformer, pre_transform_value) ==
    [value |-> value, transformer |-> transformer, pre_transform_value |-> pre_transform_value]

\* the source arguments: a and x as given on a command line, and g/c as
\* SyntheticValue.__init__ derives it from the dotted argument g.c
SourceArgs ==
    {TaskArgument(<<"a">>, "_identity", <<"None">>),
     TaskArgument(<<"x">>, "_identity", <<"None">>),
     TaskArgument(<<"g", "/", "c">>, "_undo_path_replacement", <<"g", ".", "c">>)}

TargetValues == {<<"b">>, <<"h", "/", "d">>}

\* the mappings of at most two pairs, as lists of items
PairLists ==
    {p \in UNION {[1..n -> SourceArgs \X TargetValues] : n \in 0..2} :
        \A i, j \in 1..Len(p) : i # j => (p[i][1] # p[j][1] /\ p[i][2] # p[j][2])}

Leaves == {<<"a">>, <<"x">>, <<"g", ".", "c">>, <<"g", "/", "c">>, <<"z">>}

\* the least index at which the sequence of booleans is true, or 0
FirstIndex(P) ==
    IF \E i \in DOMAIN P : P[i]
    THEN CHOOSE i \in DOMAIN P : P[i] /\ \A j \in 1..(i - 1) : ~P[j]
    ELSE 0

\* the pair of the mapping whose source equals the leaf, or 0
SourceIndex(m, leaf) == FirstIndex([i \in 1..Len(m) |-> m[i][1].value = leaf])

\* one value of a tuple of arguments: [value, argument added to
\* configuration_task_arguments]
SequenceLeaf(m, value) ==
    LET k == SourceIndex(m, value)
        p == FirstIndex([i \in 1..Len(m) |-> m[i][1].pre_transform_value = value])
    IN  IF k # 0 THEN [value |-> Transform(m[k][1], m[k][2]), added |-> {m[k][2]}]
        ELSE IF p # 0 THEN [value |-> Transform(m[p][1], m[p][2]), added |-> {m[p][2]}]
        ELSE [value |-> value, added |-> {value}]

\* one leaf of a nested mapping: the loop over the source arguments ends at
\* its first iteration, whether or not that argument matched
MappingLeaf(m, child) ==
    LET k == SourceIndex(m, child)
    IN  IF k # 0 THEN [value |-> Transform(m[k][1], m[k][2]), added |-> {m[k][2]}]
        ELSE IF m = <<>> THEN [value |-> child, added |-> {child}]
        ELSE IF m[1][1].pre_transform_value = child
             THEN [value |-> Transform(m[1][1], m[1][2]), added |-> {m[1][2]}]
        ELSE [value |-> child, added |-> {}]

\* the arguments and configuration_task_arguments of task.from_mapping(m)
arguments_from_mapping(kind, leaves, m) ==
    LET out == [i \in 1..Len(leaves) |->
                   IF kind = "Sequence" THEN SequenceLeaf(m, leaves[i]) ELSE MappingLeaf(m, leaves[i])]
    IN  [arguments |-> [i \in 1..Len(leaves) |-> out[i].value],
         configuration_task_arguments |-> UNION {out[i].added : i \in 1..Len(leaves)}]

BindInit ==
    /\ MapIdle
    /\ ValueIdle
    /\ IntersectIdle
    /\ SearchIdle
    /\ TimeoutIdle
    /\ StackIdle
    /\ SynthIdle
    /\ PoolIdle
    /\ KbIdle
    /\ \E kind \in {"Sequence", "Mapping"}, m \in PairLists,
          leaves \in UNION {[1..n -> Leaves] : n \in 0..MaxLeaves} :
          call = [op |-> "from_mapping", kind |-> kind, arguments |-> leaves, mapping |-> m]
    /\ returns = <<>>

\* task.from_mapping(mapping) for a task whose arguments are a tuple
BindSequence ==
    /\ returns = <<>>
    /\ call.kind = "Sequence"
    /\ returns' = <<arguments_from_mapping("Sequence", call.arguments, call.mapping)>>
    /\ UNCHANGED call

\* task.from_mapping(mapping) for a task whose arguments are a frozendict
BindMapping ==
    /\ returns = <<>>
    /\ call.kind = "Mapping"
    /\ returns' = <<arguments_from_mapping("Mapping", call.arguments, call.mapping)>>
    /\ UNCHANGED call

BindNext ==
    /\ \/ BindSequence
       \/ BindMapping
    /\ UNCHANGED <<mapVars, valueVars, intersectVars, searchVars, timeoutVars, kbVars, poolVars, synthVars, stackVars>>

SpecBind == BindInit /\ [][BindNext]_vars

\* the rule of the claim for one leaf: the values it allows
LeafRule(m, leaf) ==
    IF \E i \in 1..Len(m) : m[i][1].value = leaf
    THEN {m[i][2] : i \in {j \in 1..Len(m) : m[j][1].value = leaf}}
    ELSE IF \E i \in 1..Len(m) : m[i][1].pre_transform_value = leaf
    THEN {Transform(m[i][1], m[i][2]) : i \in {j \in 1..Len(m) : m[j][1].pre_transform_value = leaf}}
    ELSE {leaf}

\* C15: from_mapping rewrites every leaf by the same rule whether the
\* arguments are a sequence or a nested mapping: a leaf equal to a source
\* argument becomes the mapped value, a leaf equal to the pre_transform_value
\* of any source argument becomes that argument's transformer applied to its
\* mapped value, and every other leaf is left unchanged.
C15_SameRule ==
    returns # <<>> =>
        \A i \in 1..Len(call.arguments) :
            returns[1].arguments[i] \in LeafRule(call.mapping, call.arguments[i])

\* C15 for tuples of arguments none of which equals a source argument that
\* has a transformer: the rule holds.
C15_SequenceRule ==
    (/\ returns # <<>>
     /\ call.kind = "Sequence"
     /\ \A i \in 1..Len(call.arguments), j \in 1..Len(call.mapping) :
           call.mapping[j][1].value = call.arguments[i] =>
               call.mapping[j][1].transformer = "_identity")
    => \A i \in 1..Len(call.arguments) :
            returns[1].arguments[i] \in LeafRule(call.mapping, call.arguments[i])

\* C15 for nested mappings: the rule fails only for a leaf that is the
\* pre_transform_value of a source argument other than the first, or that
\* equals a source argument with a transformer.
C15_MappingRuleFirstOnly ==
    (/\ returns # <<>>
     /\ call.kind = "Mapping"
     /\ \A i \in 1..Len(call.arguments), j \in 1..Len(call.mapping) :
           /\ call.mapping[j][1].value = call.arguments[i] =>
                 call.mapping[j][1].transformer = "_identity"
           /\ call.mapping[j][1].pre_transform_value = call.arguments[i] => j = 1)
    => \A i \in 1..Len(call.arguments) :
            returns[1].arguments[i] \in LeafRule(call.mapping, call.arguments[i])

(***************************************************************************)
(* ConfigurationTaskArgumentMapping.all_combinations                       *)
(***************************************************************************)
MaxLists == 2

\* the mappings the input sets are drawn from: the empty mapping, every
\* one-pair mapping over a and b, and the two-pair mapping a->a, b->b
CombineMappings ==
    {EmptyMapping}
    \cup {NewMapping(<<p>>).obj : p \in {<<"a">>, <<"b">>} \X {<<"a">>, <<"b">>}}
    \cup {NewMapping(<<<< <<"a">>, <<"a">> >>, << <<"b">>, <<"b">> >>>>).obj}

CombineInit ==
    /\ MapIdle
    /\ ValueIdle
    /\ IntersectIdle
    /\ SearchIdle
    /\ TimeoutIdle
    /\ StackIdle
    /\ SynthIdle
    /\ PoolIdle
    /\ KbIdle
    /\ \E mappings \in UNION {[1..n -> SUBSET CombineMappings] : n \in 0..MaxLists} :
          call = [op |-> "all_combinations", mappings |-> mappings]
    /\ returns = <<>>

\* ConfigurationTaskArgumentMapping.all_combinations(mappings)
Combine ==
    /\ returns = <<>>
    /\ returns' = <<all_combinations(call.mappings)>>
    /\ UNCHANGED call

CombineNext ==
    /\ Combine
    /\ UNCHANGED <<mapVars, valueVars, intersectVars, searchVars, timeoutVars, kbVars, poolVars, synthVars, stackVars>>

SpecCombine == CombineInit /\ [][CombineNext]_vars

\* the (source, target) pairs of the mappings of a choice
PairsOf(choice) ==
    UNION {{<<k, choice[i].source_arguments[k]>> : k \in DOMAIN choice[i].source_arguments} :
              i \in 1..Len(choice)}

\* no source with two targets and no target with two sources
ConflictFree(pairs) == \A p, q \in pairs : (p[1] = q[1]) <=> (p[2] = q[2])

\* C16: for a non-empty list the result is exactly the set of conflict-free
\* merges of the Cartesian product: every returned mapping is a bijection and
\* the union of one mapping chosen from each input set, every choice without
\* a conflict is returned, no choice with a conflict is; for the empty list
\* the result is the empty set.
C16_ExactMerges ==
    returns # <<>> =>
        /\ Len(call.mappings) = 0 => returns[1] = {}
        /\ Len(call.mappings) > 0 =>
              /\ \A m \in returns[1] :
                    /\ IsBijection(m)
                    /\ \E choice \in Product(call.mappings) :
                          /\ ConflictFree(PairsOf(choice))
                          /\ PairsOf(<<m>>) = PairsOf(choice)
              /\ \A choice \in Product(call.mappings) :
                    ConflictFree(PairsOf(choice)) =>
                        \E m \in returns[1] : PairsOf(<<m>>) = PairsOf(choice)

\* C16 witness: of two input sets some choices merged and were returned and
\* another choice had a conflict and was dropped
C16_Witness ==
    /\ returns # <<>>
    /\ Len(call.mappings) = 2
    /\ returns[1] # {}
    /\ \E choice \in Product(call.mappings) : ~ConflictFree(PairsOf(choice))

(***************************************************************************)
(* map_to_other on two FileChanges whose rows are tuples                   *)
(***************************************************************************)
MaxRows == 2

\* FileContentChange.from_primitives(change_type, content) over arguments
ContentChanges(arguments) ==
    {[change_type |-> t, content |-> v] :
        t \in {"ADDITION", "DELETION"},
        v \in UNION {SyntheticValues(StrPrimitive(s), arguments) : s \in MapArgs \ {<<>>}}}

\* FileChange.from_primitives(path, changes, arguments=arguments) with up to
\* MaxRows content changes
FileChanges(arguments) ==
    {[type |-> "FileChange", fields |-> <<path>>, changes |-> rows, container |-> "tuple"] :
        path \in UNION {SyntheticValues(StrPrimitive(s), arguments) : s \in KeyPrimitives},
        rows \in UNION {[1..n -> ContentChanges(arguments)] : n \in 0..MaxRows}}

FileChangeInit ==
    /\ MapIdle
    /\ ValueIdle
    /\ IntersectIdle
    /\ SearchIdle
    /\ TimeoutIdle
    /\ StackIdle
    /\ SynthIdle
    /\ PoolIdle
    /\ KbIdle
    /\ \E arguments \in ArgumentPools \ {{}} :
       \E self \in FileChanges(arguments), other \in FileChanges({}) :
          call = [op |-> "map_to_other", self |-> self, other |-> other]
    /\ returns = <<>>

\* self.map_to_other(other)
MapToOther ==
    /\ returns = <<>>
    /\ returns' = <<map_to_other(call.self, call.other).mappings>>
    /\ UNCHANGED call

FileChangeNext ==
    /\ MapToOther
    /\ UNCHANGED <<mapVars, valueVars, intersectVars, searchVars, timeoutVars, kbVars, poolVars, synthVars, stackVars>>

SpecFileChange == FileChangeInit /\ [][FileChangeNext]_vars

\* the value v maps to the value w under m: rewriting v with m gives the
\* primitive of w
ValueMapsTo(v, w, m) == from_mapping(v, m).original_value = w.original_value

FileChangeOf(container, path, rows) ==
    [type |-> "FileChange", fields |-> <<path>>,
     changes |-> IF container = "frozenset" THEN Range(rows) ELSE rows,
     container |-> container]

\* self.map_to_task(other): the triples change_intersection can return for
\* the changes of two tasks, no Timeout firing
map_to_task(self_changes, other_changes) ==
    change_intersection(self_changes, other_changes, "None", {}, FALSE)

TaskMapInit ==
    /\ MapIdle
    /\ ValueIdle
    /\ IntersectIdle
    /\ SearchIdle
    /\ TimeoutIdle
    /\ StackIdle
    /\ SynthIdle
    /\ PoolIdle
    /\ KbIdle
    /\ \E container \in {"tuple", "frozenset"} :
       \E path \in SyntheticValues(StrPrimitive(<<"b">>), {<<"a">>}),
          source_rows \in [1..MaxRows -> ContentChanges({<<"a">>})],
          target_rows \in [1..MaxRows -> ContentChanges({})] :
          call = [op |-> "map_to_task", container |-> container,
                  source_rows |-> source_rows, target_rows |-> target_rows,
                  source |-> FileChangeOf(container, path, source_rows),
                  target |-> FileChangeOf(container, path, target_rows)]
    /\ returns = <<>>

\* t1.map_to_task(t2) for tasks with the changes {source} and {target}
MapToTask ==
    /\ returns = <<>>
    /\ \E result \in map_to_task({call.source}, {call.target}) : returns' = <<result>>
    /\ UNCHANGED call

TaskMapNext ==
    /\ MapToTask
    /\ UNCHANGED <<mapVars, valueVars, intersectVars, searchVars, timeoutVars, kbVars, poolVars, synthVars, stackVars>>

SpecTaskMap == TaskMapInit /\ [][TaskMapNext]_vars

\* the rows are the same up to the one argument a, which the target has as
\* b, and are listed in opposite order: an addition that holds a and the
\* deletion of a line without arguments, against that deletion and then the
\* addition with b for a
OppositeOrder ==
    LET s == call.source_rows
        t == call.target_rows
        sha == NewMapping(<<<< <<"a">>, <<"b">> >>>>).obj
    IN  /\ Len(s) = 2 /\ Len(t) = 2
        /\ s[1].change_type = "ADDITION" /\ s[2].change_type = "DELETION"
        /\ t[1].change_type = "DELETION" /\ t[2].change_type = "ADDITION"
        /\ s[1].content.arguments = {<<"a">>}
        /\ s[2].content.arguments = {}
        /\ t[1].content.original_value = s[2].content.original_value
        /\ t[2].content.original_value = from_mapping(s[1].content, sha).original_value

\* the result the claim names: the mapping a to b and both FileChanges in
\* their subsets
Intersects ==
    /\ returns[1].mapping = NewMapping(<<<< <<"a">>, <<"b">> >>>>).obj
    /\ returns[1].source_changes = {call.source}
    /\ returns[1].target_changes = {call.target}

\* C18 as stated: two tasks that change the same file with the same rows up
\* to one argument, listed in opposite order, intersect: map_to_task returns
\* exactly the mapping sha1 to sha2 and both FileChanges are in the subsets.
C18_OppositeOrderIntersects ==
    (returns # <<>> /\ OppositeOrder) => Intersects

\* C18 amended: they intersect in this way when the rows of each FileChange
\* are a frozenset.
C18_OppositeOrderSetsIntersect ==
    (returns # <<>> /\ OppositeOrder /\ call.container = "frozenset") => Intersects

\* C18 witness: map_to_task was called on two FileChanges whose rows are
\* frozensets listed in opposite order and returned the mapping a to b
C18_Witness ==
    /\ returns # <<>>
    /\ OppositeOrder
    /\ call.container = "frozenset"
    /\ Intersects

(***************************************************************************)
(* knowledge_base.get_resolving_tasks.  The table task_executions is the   *)
(* list of its rows in the order the query yields them; a row is [task,    *)
(* has_error, error, resolving_tasks], the error already lifted over the   *)
(* arguments of the row's task.                                            *)
(***************************************************************************)
MaxExecutions == 2

\* ShellTaskError.from_primitives(exit_code=1, stdout='', stderr=...,
\* arguments=...): the errors differ in stderr only
ShellTaskErrors(stderr, arguments) ==
    from_primitives("ShellTaskError", <<StrPrimitive(stderr)>>, arguments)

\* task.no_changes()
no_changes(task) == [task EXCEPT !.changes = {}]

\* the rows the query selects: same executable, error not NULL
Selected(executions, task) ==
    SelectSeq([i \in 1..Len(executions) |-> i],
              LAMBDA i : /\ executions[i].task.executable = task.executable
                         /\ executions[i].has_error)

\* bool(secondary_mapping): the mapping class defines neither __bool__ nor
\* __len__, so every mapping object is true
Truthy(secondary_mapping) == TRUE

\* what the loop over the matches returns when pick[i] is what
\* task.map_to_task(executions[i].task) returned for row i
ResolvingTasks(executions, task, error, pick) ==
    LET rows == Selected(executions, task)
        exact(i) == SameTask(task, executions[i].task)
        exact_matches == SelectSeq(rows, exact)
        mapped_matches == SelectSeq(rows, LAMBDA i : ~exact(i) /\ Truthy(pick[i].mapping))
        matches == exact_matches \o mapped_matches
        final_error(i) == IF exact(i) THEN error ELSE change_from_mapping(error, pick[i].mapping)
        final_mapping(i) == IF exact(i) THEN EmptyMapping ELSE invert(pick[i].mapping).obj
        hits == SelectSeq(matches, LAMBDA i : final_error(i) = executions[i].error)
    IN  IF hits = <<>> THEN <<>>
        ELSE [j \in 1..Len(executions[hits[1]].resolving_tasks) |->
                 <<no_changes(executions[hits[1]].resolving_tasks[j]), final_mapping(hits[1])>>]

\* get_resolving_tasks(task, error): the lists it can return, one for every
\* result map_to_task can give for each row
get_resolving_tasks(executions, task, error) ==
    {ResolvingTasks(executions, task, error, pick) :
        pick \in Product([i \in 1..Len(executions) |->
                            map_to_task(task.changes, executions[i].task.changes)])}

\* the tasks of the knowledge base and of the queries: touch or rm with at
\* most one argument and one FileAdd
StoredTasks ==
    UNION {ConfigurationTasks(executable, arguments, {<<"FileAdd", <<StrPrimitive(path)>>>>}) :
              executable \in {"touch", "rm"},
              arguments \in {<<>>, <<<<"a">>>>, <<<<"b">>>>},
              path \in KeyPrimitives}

\* the rows: a task, its error or none, and one resolving task
Executions ==
    UNION {{[task |-> t, has_error |-> h, error |-> e, resolving_tasks |-> <<r>>] :
               h \in BOOLEAN,
               e \in UNION {ShellTaskErrors(stderr, t.configuration_task_arguments) :
                               stderr \in KeyPrimitives},
               r \in ConfigurationTasks("mkdir", <<<<"a">>>>, {<<"FileAdd", <<StrPrimitive(<<"a">>)>>>>})
                     \cup ConfigurationTasks("mkdir", <<<<"b">>>>, {})} :
            t \in StoredTasks}

KnowledgeBaseInit ==
    /\ MapIdle
    /\ ValueIdle
    /\ IntersectIdle
    /\ SearchIdle
    /\ TimeoutIdle
    /\ StackIdle
    /\ SynthIdle
    /\ PoolIdle
    /\ KbIdle
    /\ \E executions \in UNION {[1..n -> Executions] : n \in 0..MaxExecutions} :
       \E task \in {t \in StoredTasks : t.executable = "touch"} :
       \E error \in UNION {ShellTaskErrors(stderr, task.configuration_task_arguments) :
                              stderr \in KeyPrimitives} :
          call = [op |-> "get_resolving_tasks", executions |-> executions,
                  task |-> task, error |-> error]
    /\ returns = <<>>

\* get_resolving_tasks(task, error)
GetResolvingTasks ==
    /\ returns = <<>>
    /\ \E result \in get_resolving_tasks(call.executions, call.task, call.error) :
          returns' = <<result>>
    /\ UNCHANGED call

KnowledgeBaseNext ==
    /\ GetResolvingTasks
    /\ UNCHANGED <<mapVars, valueVars, intersectVars, searchVars, timeoutVars, kbVars, poolVars, synthVars, stackVars>>

SpecKnowledgeBase == KnowledgeBaseInit /\ [][KnowledgeBaseNext]_vars

\* row i holds a task of the query's executable together with an error
IsSelected(i) ==
    /\ call.executions[i].task.executable = call.task.executable
    /\ call.executions[i].has_error

\* the query task equals the task of row i
IsExact(i) == SameTask(call.task, call.executions[i].task)

\* the results of mapping the query task to the task of row i
TaskMappings(i) == map_to_task(call.task.changes, call.executions[i].task.changes)

\* the query task can be mapped to the task of row i: some change of the
\* stored task is one that a change of the query task maps to
Mappable(i) == \E r \in TaskMappings(i) : r.target_changes # {}

\* row i matches the query task
TaskMatches(i) == IsSelected(i) /\ (IsExact(i) \/ Mappable(i))

\* row i qualifies with the returned mapping m: its task matches and its
\* error equals the query error, rewritten with the task mapping r.mapping
\* when the match is not exact
QualifiesWith(i, r, m) ==
    /\ TaskMatches(i)
    /\ IF IsExact(i)
       THEN /\ call.error = call.executions[i].error
            /\ m = EmptyMapping
       ELSE /\ change_from_mapping(call.error, r.mapping) = call.executions[i].error
            /\ m = invert(r.mapping).obj

Qualifies(i) == \E r \in TaskMappings(i) : QualifiesWith(i, r, invert(r.mapping).obj) \/ QualifiesWith(i, r, EmptyMapping)

\* row j is examined before row i
ExaminedBefore(j, i) ==
    \/ IsExact(j) /\ ~IsExact(i)
    \/ IsExact(j) = IsExact(i) /\ j < i

\* the resolving tasks of row i without their changes, each paired with m
PairedWith(i, m) ==
    [j \in 1..Len(call.executions[i].resolving_tasks) |->
        <<no_changes(call.executions[i].resolving_tasks[j]), m>>]

\* get_resolving_tasks has returned
Returned == call.op = "get_resolving_tasks" /\ returns # <<>>

\* C19: get_resolving_tasks returns the resolving tasks of the first stored
\* execution whose task matches the query task (it is equal, or the query
\* task can be mapped to it) and whose error equals the query error,
\* rewritten with the task mapping when the match is not exact; each task is
\* paired with the empty mapping for an exact match and with the inverse of
\* the task mapping otherwise; exact matches are examined before mapped
\* ones; when no stored execution qualifies the result is the empty list.
C19_FirstQualifying ==
    Returned =>
        LET rows == 1..Len(call.executions)
        IN  IF \A i \in rows : ~Qualifies(i)
            THEN returns[1] = <<>>
            ELSE \E i \in rows : \E r \in TaskMappings(i) : \E m \in {EmptyMapping, invert(r.mapping).obj} :
                    /\ QualifiesWith(i, r, m)
                    /\ returns[1] = PairedWith(i, m)
                    /\ \A j \in rows : ExaminedBefore(j, i) => ~Qualifies(j)

\* every row of the query's executable that holds an error has a task the
\* query task equals or can be mapped to
AllSelectedMatch ==
    \A i \in 1..Len(call.executions) : IsSelected(i) => TaskMatches(i)

\* the property of C19 on the knowledge bases in which every selected row
\* has a task that matches the query task
C19_FirstQualifyingAmongMatching ==
    (Returned /\ AllSelectedMatch) =>
        LET rows == 1..Len(call.executions)
        IN  IF \A i \in rows : ~Qualifies(i)
            THEN returns[1] = <<>>
            ELSE \E i \in rows : \E r \in TaskMappings(i) : \E m \in {EmptyMapping, invert(r.mapping).obj} :
                    /\ QualifiesWith(i, r, m)
                    /\ returns[1] = PairedWith(i, m)
                    /\ \A j \in rows : ExaminedBefore(j, i) => ~Qualifies(j)

\* C20: get_resolving_tasks never returns resolving tasks taken from a stored
\* task that the query task neither equals nor can be mapped to: whenever
\* the result is not empty, it is the resolving tasks of a row whose task
\* matches the query task.
C20_OnlyFromMatching ==
    (Returned /\ returns[1] # <<>>) =>
        \E i \in 1..Len(call.executions) :
            /\ TaskMatches(i)
            /\ \E m \in {returns[1][1][2]} : returns[1] = PairedWith(i, m)

\* map_to_task on the tasks of the knowledge base raises no exception
MapToTaskReturns ==
    Returned => \A i \in 1..Len(call.executions) : \A r \in TaskMappings(i) : ~r.raised

(***************************************************************************)
(* The knowledge base as a store: task_executions behind a MySQL server    *)
(* that may be down.  A JSON column holds <<>> for NULL and <<document>>   *)
(* otherwise; an Optional argument is <<>> for None and <<value>>          *)
(* otherwise.  The task record of this model carries no system, so an      *)
(* execution names task.system beside its task.                            *)
(***************************************************************************)
MaxStoreRows == 2       \* most rows of task_executions

\* the JSON document of a task: its system and its encoding
TaskDocument(system, task) == [system |-> system, task |-> Encode(task)]

\* _cast_json(v) for an Optional error
ErrorColumn(error) == IF error = <<>> THEN <<>> ELSE <<EncodeChange(error[1])>>

\* _cast_json(v) for an Optional tuple of resolving tasks
ResolvingColumn(system, resolving_tasks) ==
    IF resolving_tasks = <<>> THEN <<>>
    ELSE <<[i \in 1..Len(resolving_tasks[1]) |-> TaskDocument(system, resolving_tasks[1][i])]>>

\* an exists query that finds nothing
ExecutionNeverExists(rows, x) == FALSE

\* the exists query of insert_task_executions
ExecutionExists(rows, x) ==
    \E i \in 1..Len(rows) :
        /\ rows[i].task = TaskDocument(x.system, x.task)
        /\ rows[i].error = ErrorColumn(x.error)
        /\ rows[i].resolving_tasks = ResolvingColumn(x.system, x.resolving_tasks)
        /\ x.level # <<>> => rows[i].level = x.level[1]

\* the row the insert query adds; the column level defaults to 1
InsertedRow(x) ==
    [system |-> x.system,
     level |-> IF x.level = <<>> THEN 1 ELSE x.level[1],
     task |-> TaskDocument(x.system, x.task),
     error |-> ErrorColumn(x.error),
     resolving_tasks |-> ResolvingColumn(x.system, x.resolving_tasks)]

\* the loop of insert_task_executions over the executions
RECURSIVE insert_task_executions(_, _)
insert_task_executions(rows, executions) ==
    IF executions = <<>> THEN rows
    ELSE insert_task_executions(
             IF ExecutionExists(rows, Head(executions)) THEN rows
             ELSE Append(rows, InsertedRow(Head(executions))),
             Tail(executions))

\* ConfigurationSystem(system) raises ValueError for any other name
ConfigurationSystems == {"shell", "docker", "ansible"}

\* get_configuration_tasks(system, level): the sets it can return, one task
\* for each selected document
get_configuration_tasks(rows, system, level) ==
    LET documents == {rows[i].task : i \in {j \in 1..Len(rows) :
                          /\ system # <<>> => rows[j].system = system[1]
                          /\ level # <<>> => rows[j].level = level[1]}}
        order == SetToSeq(documents)
    IN  {Range(tasks) : tasks \in Product([i \in 1..Len(order) |-> Decode(order[i].task)])}

\* the rows of one system as get_resolving_tasks reads them: task and error
\* decoded, the error lifted over the arguments of the row's task
StoredExecutions(rows, system) ==
    LET selected == SelectSeq(rows, LAMBDA row : row.system = system)
        documents(row) ==
            <<row.task>> \o (IF row.resolving_tasks = <<>> THEN <<>> ELSE row.resolving_tasks[1])
        decoded(row) ==
            {[task |-> Head(tasks), has_error |-> row.error # <<>>, error |-> e,
              resolving_tasks |-> Tail(tasks)] :
                tasks \in Product([i \in 1..Len(documents(row)) |->
                                      Decode(documents(row)[i].task)]),
                e \in IF row.error = <<>> THEN {<<>>}
                      ELSE from_primitives(row.error[1][1], row.error[1][2],
                                           Range(row.task.task.value.arguments))}
    IN  Product([i \in 1..Len(selected) |-> decoded(selected[i])])

\* _resolving_tasks(other_id) iterates over the column resolving_tasks of a
\* matched row: TypeError when it is NULL
IteratesNull(rows, system, executable) ==
    \E i \in 1..Len(rows) :
        /\ rows[i].system = system
        /\ rows[i].task.task.value.executable = executable
        /\ rows[i].error # <<>>
        /\ rows[i].resolving_tasks = <<>>

\* the tasks of the executions and of the queries
InsertedTasks ==
    UNION {ConfigurationTasks("touch", <<path>>, {<<"FileAdd", <<StrPrimitive(path)>>>>}) :
              path \in KeyPrimitives}

ResolvingTaskLists == {<<r>> : r \in ConfigurationTasks("mkdir", <<<<"a">>>>, {})}

\* the executions: the shell task touch a with any level, with or without
\* error and resolving tasks, and the same task of a Dockerfile
InsertedExecutions ==
    LET all == {[level |-> level, system |-> system, task |-> task,
                 error |-> er[1], resolving_tasks |-> er[2]] :
                   level \in {<<>>, <<1>>, <<2>>},
                   system \in {"shell", "docker"},
                   task \in ConfigurationTasks("touch", <<<<"a">>>>,
                                               {<<"FileAdd", <<StrPrimitive(<<"a">>)>>>>}),
                   er \in {<<<<>>, <<>>>>}
                          \cup UNION {{<<<<e>>, <<>>>>} \cup {<<<<e>>, <<rt>>>> : rt \in ResolvingTaskLists} :
                                        e \in ShellTaskErrors(<<"a">>, {})}}
    IN  {x \in all : x.system = "docker" => x.level = <<>> /\ x.error = <<>>}

\* the iterables handed to insert_task_executions: one execution, or one
\* execution followed by the same one without level
InsertedLists ==
    UNION {{<<x>>, <<x, [x EXCEPT !.level = <<>>]>>} : x \in InsertedExecutions}

StoreInit ==
    /\ MapIdle
    /\ ValueIdle
    /\ IntersectIdle
    /\ SearchIdle
    /\ TimeoutIdle
    /\ StackIdle
    /\ SynthIdle
    /\ PoolIdle
    /\ CallIdle
    /\ kbRows = <<>>
    /\ kbAvailable \in BOOLEAN
    /\ kbLast = [op |-> "none", outcome |-> "none", result |-> {}]

\* _with_tables: metadata.create_all() runs before every call, because
\* _tables_created is never set; its OperationalError is logged and raised again
CreateAllRaises == ~kbAvailable

\* insert_task_executions(executions)
KbInsert ==
    \E executions \in InsertedLists :
        /\ Len(insert_task_executions(kbRows, executions)) <= MaxStoreRows
        /\ IF CreateAllRaises
           THEN /\ kbLast' = [op |-> "insert_task_executions", outcome |-> "OperationalError", result |-> {executions}]
                /\ UNCHANGED kbRows
           ELSE /\ kbRows' = insert_task_executions(kbRows, executions)
                /\ kbLast' = [op |-> "insert_task_executions", outcome |-> "returned",
                              result |-> {executions}]
        /\ UNCHANGED kbAvailable

\* get_configuration_tasks(system, level)
KbGetConfigurationTasks ==
    \E system \in {<<>>, <<"shell">>, <<"docker">>, <<"puppet">>}, level \in {<<>>, <<1>>, <<2>>} :
        /\ IF CreateAllRaises
           THEN kbLast' = [op |-> "get_configuration_tasks", outcome |-> "OperationalError", result |-> {}]
           ELSE IF system # <<>> /\ system[1] \notin ConfigurationSystems
           THEN kbLast' = [op |-> "get_configuration_tasks", outcome |-> "ValueError", result |-> {}]
           ELSE \E tasks \in get_configuration_tasks(kbRows, system, level) :
                   kbLast' = [op |-> "get_configuration_tasks", outcome |-> "returned", result |-> tasks]
        /\ UNCHANGED <<kbRows, kbAvailable>>

\* get_resolving_tasks(task, error), system standing for task.system
KbGetResolvingTasks ==
    \E system \in {"shell", "docker"}, task \in InsertedTasks :
    \E error \in ShellTaskErrors(<<"a">>, task.configuration_task_arguments) :
        /\ IF CreateAllRaises
           THEN kbLast' = [op |-> "get_resolving_tasks", outcome |-> "OperationalError", result |-> {}]
           ELSE IF IteratesNull(kbRows, system, task.executable)
           THEN kbLast' = [op |-> "get_resolving_tasks", outcome |-> "TypeError", result |-> {}]
           ELSE \E executions \in StoredExecutions(kbRows, system) :
                \E result \in get_resolving_tasks(executions, task, error) :
                   kbLast' = [op |-> "get_resolving_tasks", outcome |-> "returned", result |-> {result}]
        /\ UNCHANGED <<kbRows, kbAvailable>>

\* the MySQL server goes down or comes back
KbOutage ==
    /\ kbAvailable' = ~kbAvailable
    /\ UNCHANGED <<kbRows, kbLast>>

StoreNext ==
    /\ \/ KbInsert
       \/ KbGetConfigurationTasks
       \/ KbGetResolvingTasks
       \/ KbOutage
    /\ UNCHANGED <<mapVars, valueVars, intersectVars, searchVars, timeoutVars, callVars, poolVars, synthVars, stackVars>>

SpecStore == StoreInit /\ [][StoreNext]_vars

\* the call that ended last was a query
LastWasQuery == kbLast.op \in {"get_configuration_tasks", "get_resolving_tasks"}

\* the last call returned no results
ReturnedNoResults ==
    /\ kbLast.outcome = "returned"
    /\ kbLast.op = "get_configuration_tasks" => kbLast.result = {}
    /\ kbLast.op = "get_resolving_tasks" => \A result \in kbLast.result : Len(result) = 0

\* C21: when the backing store is unavailable, get_configuration_tasks and
\* get_resolving_tasks return no results instead of raising: a query made
\* while the server is down ends by returning, and returns nothing.
C21_NoResultsWhenDown ==
    [][(~kbAvailable /\ (KbGetConfigurationTasks \/ KbGetResolvingTasks)) => ReturnedNoResults']_vars

\* what the code does instead: every query made while the server is down
\* ends with the OperationalError of create_all
C21_RaisesWhenDown ==
    [][(~kbAvailable /\ (KbGetConfigurationTasks \/ KbGetResolvingTasks)) =>
           kbLast'.outcome = "OperationalError"]_vars

\* rows i and j hold the same (level, task, error, resolving_tasks)
SameExecution(rows, i, j) ==
    /\ rows[i].level = rows[j].level
    /\ rows[i].task = rows[j].task
    /\ rows[i].error = rows[j].error
    /\ rows[i].resolving_tasks = rows[j].resolving_tasks

\* the execution x is already in the rows: a row holds its task, error and
\* resolving tasks, and its level when x has one
AlreadyStored(rows, x) ==
    \E i \in 1..Len(rows) :
        /\ InsertedRow(x).task = rows[i].task
        /\ InsertedRow(x).error = rows[i].error
        /\ InsertedRow(x).resolving_tasks = rows[i].resolving_tasks
        /\ x.level = <<>> \/ rows[i].level = x.level[1]

\* an insert_task_executions that returned
Inserted == kbLast.op = "insert_task_executions" /\ kbLast.outcome = "returned"

\* C22: after any sequence of insert_task_executions calls the store holds at
\* most one row for each (level, task, error, resolving_tasks); a call leaves
\* the rows that exist as they are, and a call whose executions all exist
\* already (level ignored for an execution without level) adds no row.
C22_NoDuplicates ==
    [][/\ \A i, j \in 1..Len(kbRows') : SameExecution(kbRows', i, j) => i = j
       /\ Inserted' /\ kbRows' # kbRows =>
             /\ Len(kbRows') > Len(kbRows)
             /\ SubSeq(kbRows', 1, Len(kbRows)) = kbRows
             /\ \E executions \in kbLast'.result :
                   \E k \in 1..Len(executions) : ~AlreadyStored(kbRows, executions[k])]_vars

\* a call of two executions returned and the store holds one row: an
\* execution that existed, the second without level, was not inserted again
C22_Witness ==
    /\ Inserted
    /\ Len(kbRows) = 1
    /\ \E executions \in kbLast.result :
          /\ Len(executions) = 2
          /\ executions[2].level = <<>>
          /\ AlreadyStored(kbRows, executions[2])

(***************************************************************************)
(* change_intersection above the parallel threshold: the workers of the    *)
(* Pool run _map on the pairs and pool.imap_unordered hands their results  *)
(* to the main process in any order.  The inputs are ciSource and ciTarget;*)
(* ciTimedOut collects the pairs whose Timeout(seconds=1) fired.           *)
(***************************************************************************)
\* _map(pair) in a worker: the exception of a ValueError travels back in
\* place of the result
WorkerResult(p, fired) ==
    IF fired \/ map_to_other(p[1], p[2]).type_error
    THEN [pair |-> p, raised |-> FALSE, mappings |-> {}]
    ELSE [pair |-> p, raised |-> map_to_other(p[1], p[2]).value_error,
          mappings |-> map_to_other(p[1], p[2]).mappings]

\* a loop body that keeps only the last source and target change of a mapping
AggregateLast(a, source_change, target_change, mappings, new_keys) ==
    LET keys == DOMAIN a.counter \cup mappings
    IN  [counter |-> [m \in keys |->
                         (IF m \in DOMAIN a.counter THEN a.counter[m] ELSE 0)
                         + (IF m \in mappings THEN 1 ELSE 0)],
         order |-> a.order \o new_keys,
         source_changes |-> [m \in keys |->
                               IF m \in mappings THEN {source_change} ELSE a.source_changes[m]],
         target_changes |-> [m \in keys |->
                               IF m \in mappings THEN {target_change} ELSE a.target_changes[m]]]

\* the body of both loops: for mapping in mappings, count it and record its
\* source and target change; new keys enter the Counter in the order given
Aggregate(a, source_change, target_change, mappings, new_keys) ==
    LET keys == DOMAIN a.counter \cup mappings
    IN  [counter |-> [m \in keys |->
                         (IF m \in DOMAIN a.counter THEN a.counter[m] ELSE 0)
                         + (IF m \in mappings THEN 1 ELSE 0)],
         order |-> a.order \o new_keys,
         source_changes |-> [m \in keys |->
                               (IF m \in DOMAIN a.counter THEN a.source_changes[m] ELSE {})
                               \cup (IF m \in mappings THEN {source_change} ELSE {})],
         target_changes |-> [m \in keys |->
                               (IF m \in DOMAIN a.counter THEN a.target_changes[m] ELSE {})
                               \cup (IF m \in mappings THEN {target_change} ELSE {})]]

\* the orders in which the loop over a set of mappings can meet those that
\* are not yet keys of the counter
NewKeyOrders(counter, mappings) ==
    LET new == mappings \ DOMAIN counter
    IN  {o \in [1..Cardinality(new) -> new] : \A i, j \in 1..Len(o) : i # j => o[i] # o[j]}

EmptyAggregate == [counter |-> <<>>, order |-> <<>>, source_changes |-> <<>>, target_changes |-> <<>>]

\* the serial loop over the pairs in the order given, the keys of each pair
\* met in the order SetToSeq lists them
RECURSIVE SerialLoop(_, _, _)
SerialLoop(a, pairs, timed_out) ==
    IF pairs = <<>> THEN [raised |-> FALSE, aggregate |-> a]
    ELSE LET p == Head(pairs)
             r == WorkerResult(p, p \in timed_out)
         IN  IF r.raised THEN [raised |-> TRUE, aggregate |-> a]
             ELSE SerialLoop(Aggregate(a, p[1], p[2], r.mappings,
                                       SetToSeq(r.mappings \ DOMAIN a.counter)),
                             Tail(pairs), timed_out)

\* the primitives of the changes of the calls: two files, and one variable
\* set to a str or to an int
PoolPrimitives ==
    {<<"FileAdd", <<StrPrimitive(<<"a">>)>>>>, <<"FileAdd", <<StrPrimitive(<<"b">>)>>>>,
     <<"EnvSet", <<StrPrimitive(<<"a">>), StrPrimitive(<<"a">>)>>>>,
     <<"EnvSet", <<StrPrimitive(<<"a">>), IntPrimitive(<<"1">>)>>>>}

\* the change sets of at most MaxChanges of them decomposed over one pool
PoolChangeSets(arguments) ==
    LET lifted == UNION {from_primitives(c[1], c[2], arguments) : c \in PoolPrimitives}
    IN  {S \in SUBSET lifted : Cardinality(S) <= MaxChanges}

PoolInit ==
    /\ MapIdle
    /\ ValueIdle
    /\ SearchIdle
    /\ TimeoutIdle
    /\ StackIdle
    /\ SynthIdle
    /\ KbIdle
    /\ CallIdle
    /\ ciSource \in PoolChangeSets({<<"a">>})
    /\ ciTarget \in PoolChangeSets({})
    /\ ciWithMapping = "True"
    /\ ciTimedOut = {}
    /\ ciCliqueTimeout = FALSE
    /\ ciResult = EmptyIntersection
    /\ ciDone = FALSE
    /\ agTodo = BinnedPairs(ciSource, ciTarget)
    /\ agQueue = {}
    /\ agCounter = <<>>
    /\ agOrder = <<>>
    /\ agSourceChanges = <<>>
    /\ agTargetChanges = <<>>
    /\ agRaised = FALSE

\* a worker runs _map on a pair; its Timeout fires or not
WorkerMap ==
    /\ ~agRaised
    /\ \E p \in agTodo, fired \in BOOLEAN :
          /\ agTodo' = agTodo \ {p}
          /\ agQueue' = agQueue \cup {WorkerResult(p, fired)}
          /\ ciTimedOut' = IF fired THEN ciTimedOut \cup {p} ELSE ciTimedOut
    /\ UNCHANGED <<agCounter, agOrder, agSourceChanges, agTargetChanges, agRaised>>

\* the main process takes the next result of pool.imap_unordered
MainReceive ==
    /\ ~agRaised
    /\ \E r \in agQueue :
          /\ agQueue' = agQueue \ {r}
          /\ IF r.raised
             THEN /\ agRaised' = TRUE
                  /\ UNCHANGED <<agCounter, agOrder, agSourceChanges, agTargetChanges>>
             ELSE /\ \E new_keys \in NewKeyOrders(agCounter, r.mappings) :
                     LET a == Aggregate([counter |-> agCounter, order |-> agOrder,
                                         source_changes |-> agSourceChanges,
                                         target_changes |-> agTargetChanges],
                                        r.pair[1], r.pair[2], r.mappings, new_keys)
                     IN  /\ agCounter' = a.counter
                         /\ agOrder' = a.order
                         /\ agSourceChanges' = a.source_changes
                         /\ agTargetChanges' = a.target_changes
                  /\ UNCHANGED agRaised
    /\ UNCHANGED <<agTodo, ciTimedOut>>

PoolNext ==
    /\ \/ WorkerMap
       \/ MainReceive
    /\ UNCHANGED <<ciSource, ciTarget, ciWithMapping, ciCliqueTimeout, ciResult, ciDone>>
    /\ UNCHANGED <<mapVars, valueVars, searchVars, timeoutVars, callVars, kbVars, synthVars, stackVars>>

SpecPool == PoolInit /\ [][PoolNext]_vars

\* every result has been received and none raised
AllReceived == ~agRaised /\ agTodo = {} /\ agQueue = {}

\* what the serial path computes for the same pairs and the same timeouts
SerialResultFor(timed_out) ==
    SerialLoop(EmptyAggregate, SetToSeq(BinnedPairs(ciSource, ciTarget)), timed_out)

SerialResult == SerialResultFor(ciTimedOut)

\* C23: the aggregation does not depend on the order in which the workers
\* deliver: once all results are received, the counter and the source and
\* target changes of every mapping are those of the serial loop over the
\* same pairs, whatever the interleaving, and the main process raises only
\* if the serial loop does; a step of a worker leaves the counter and the
\* sets of the main process as they are.
C23_OrderIndependent ==
    [][/\ AllReceived' =>
             /\ ~SerialResultFor(ciTimedOut').raised
             /\ agCounter' = SerialResultFor(ciTimedOut').aggregate.counter
             /\ agSourceChanges' = SerialResultFor(ciTimedOut').aggregate.source_changes
             /\ agTargetChanges' = SerialResultFor(ciTimedOut').aggregate.target_changes
             /\ agCounter' = CounterOf(PairResults(ciSource, ciTarget, ciTimedOut'))
       /\ agRaised' => EscapingError(ciSource, ciTarget, ciTimedOut')
       /\ agTodo' # agTodo =>
             UNCHANGED <<agCounter, agOrder, agSourceChanges, agTargetChanges, agRaised>>]_vars

\* two results that share a mapping were received, the later-mapped first
C23_Witness ==
    /\ AllReceived
    /\ Cardinality(BinnedPairs(ciSource, ciTarget)) >= 2
    /\ \E m \in DOMAIN agCounter : agCounter[m] >= 2
    /\ ciTimedOut # {}

\* the order in which the keys entered the counter is the serial one
C23_SameKeyOrder ==
    AllReceived => agOrder = SerialResult.aggregate.order

(***************************************************************************)
(* synthesize_configuration_tasks: the loop over the levels.  Each round   *)
(* runs get_task_set (the search above, on the gs variables) and removes   *)
(* the changes the round reproduced.                                       *)
(***************************************************************************)
\* the tasks of the knowledge base: touch with no argument or one, adding
\* one file
SynthTasks ==
    UNION {ConfigurationTasks("touch", arguments, {<<"FileAdd", <<StrPrimitive(path)>>>>}) :
              arguments \in {<<>>, <<<<"a">>>>}, path \in {<<"a">>, <<"b">>}}

\* the changes asked for: one or two files added
SynthTargets ==
    {S \in SUBSET UNION {from_primitives("FileAdd", <<StrPrimitive(path)>>, {}) :
                            path \in {<<"a">>, <<"b">>}} : S # {}}

\* the orders get_task_ordering can give the results
Orderings(results) ==
    {o \in [1..Len(results) -> Range(results)] : \A i, j \in 1..Len(o) : i # j => o[i] # o[j]}

\* set(chain.from_iterable(result.task.changes for result in results))
TaskChanges(results) == UNION {results[i].task.changes : i \in 1..Len(results)}

\* nothing is taken off the changes
NoTaskChanges(results) == {}

SynthInit ==
    /\ MapIdle
    /\ ValueIdle
    /\ IntersectIdle
    /\ TimeoutIdle
    /\ StackIdle
    /\ PoolIdle
    /\ KbIdle
    /\ CallIdle
    /\ SearchIdle
    /\ syCandidates \in [{0, 1} -> {<<>>} \cup {<<t>> : t \in SynthTasks}]
    /\ syRunner \in BOOLEAN
    /\ syLevel = 1
    /\ syChanges \in SynthTargets
    /\ syTasks = <<>>
    /\ syRounds = <<>>
    /\ syPc = "loop"

\* while level >= 0: results = get_task_set(changes, system=system, level=level)
BeginRound ==
    /\ syPc = "loop"
    /\ syLevel >= 0
    /\ syPc' = "search"
    /\ syRounds' = Append(syRounds, [level |-> syLevel, changes |-> syChanges, covered |-> {}])
    /\ gsTasks' = syCandidates[syLevel]
    /\ gsTarget' = syChanges
    /\ gsResidual' = syChanges
    /\ gsResults' = <<>>
    /\ gsCovered' = <<>>
    /\ gsDone' = FALSE
    /\ UNCHANGED <<syCandidates, syRunner, syLevel, syChanges, syTasks>>

\* the search of the round makes a selection
RoundSelect ==
    /\ syPc = "search"
    /\ SearchSelect
    /\ UNCHANGED synthVars

\* the search of the round stops
RoundStop ==
    /\ syPc = "search"
    /\ SearchStop
    /\ UNCHANGED synthVars

\* the level is left as it is
SameLevel(level) == level

\* level -= 1
NextLevel(level) == level - 1

\* the rest of the loop body once get_task_set has returned
Finish(results, new_changes) ==
    /\ syTasks' = syTasks \o [i \in 1..Len(results) |-> results[i].task]
    /\ syChanges' = syChanges \ new_changes
    /\ syLevel' = NextLevel(syLevel)
    /\ syRounds' = [syRounds EXCEPT ![Len(syRounds)].covered = CoveredBy(Len(gsCovered))]
    /\ syPc' = IF syChanges \ new_changes = {} \/ NextLevel(syLevel) < 0 THEN "returned" ELSE "loop"

\* order is off, or no images: the changes of the bound tasks are removed
EndRound ==
    /\ syPc = "search"
    /\ gsDone
    /\ ~syRunner
    /\ Finish(gsResults, TaskChanges(gsResults))
    /\ UNCHANGED <<syCandidates, syRunner, searchVars>>

\* the tasks are ordered and run in a container, whose diff is removed
EndRoundRun ==
    /\ syPc = "search"
    /\ gsDone
    /\ syRunner
    /\ \E results \in Orderings(gsResults), new_changes \in SUBSET syRounds[1].changes :
          Finish(results, new_changes)
    /\ UNCHANGED <<syCandidates, syRunner, searchVars>>

\* runner.run_task raises ConfigurationTaskError, which is raised again
EndRoundRaise ==
    /\ syPc = "search"
    /\ gsDone
    /\ syRunner
    /\ syTasks \o gsResults # <<>>
    /\ syPc' = "raised"
    /\ syTasks' = syTasks \o [i \in 1..Len(gsResults) |-> gsResults[i].task]
    /\ UNCHANGED <<syCandidates, syRunner, syLevel, syChanges, syRounds, searchVars>>

SynthNext ==
    /\ \/ BeginRound
       \/ RoundSelect
       \/ RoundStop
       \/ EndRound
       \/ EndRoundRun
       \/ EndRoundRaise
    /\ UNCHANGED <<mapVars, valueVars, intersectVars, timeoutVars, callVars, kbVars, poolVars, stackVars>>

SpecSynth == SynthInit /\ [][SynthNext]_vars

\* C25: the rounds of the loop search level 1 and then level 0, each at most
\* once; level 0 is searched only if changes were left after the round of
\* level 1; there are never more than two rounds, and the call returns only
\* after a round.
C25_LevelsInOrder ==
    /\ Len(syRounds) <= 2
    /\ \A k \in 1..Len(syRounds) : syRounds[k].level = 2 - k
    /\ Len(syRounds) = 2 => syRounds[2].changes # {}
    /\ syPc = "returned" =>
          /\ Len(syRounds) >= 1
          /\ Len(syRounds) = 1 => syChanges = {}

\* C25 witness: a call that returned after one round, and one after two
C25_Witness == syPc = "returned" /\ Len(syRounds) = 2 /\ syTasks # <<>>

C25_WitnessOneRound == syPc = "returned" /\ Len(syRounds) = 1 /\ syTasks # <<>>

\* C26: with ordering off, no round searches a target change that an
\* earlier round covered.
C26_CoveredNotSearchedAgain ==
    ~syRunner =>
        \A j \in 1..Len(syRounds), k \in 1..Len(syRounds) :
            k < j => syRounds[j].changes \cap syRounds[k].covered = {}

\* with ordering off, what a round removes is the changes of its bound
\* tasks that are equal, decomposition included, to a change asked for
C26_EqualChangesRemoved ==
    ~syRunner =>
        (syPc \in {"loop", "returned"} =>
            \A i \in 1..Len(syTasks) : syChanges \cap syTasks[i].changes = {})

(***************************************************************************)
(* The end of change_intersection: a clique of the graph whose edges join  *)
(* the mappings that merge, and merge_all over its nodes                   *)
(***************************************************************************)
MaxNodes == 3           \* most nodes of the graph

\* the mappings over "a", "b" and "ab": the empty one, those of one pair,
\* and those of two pairs that map "a" and "b"
CliqueMappings ==
    {m \in OperandMappings :
        /\ <<>> \notin DOMAIN m.source_arguments \cup DOMAIN m.target_arguments
        /\ Cardinality(DOMAIN m.source_arguments) = 2
              => DOMAIN m.source_arguments = {<<"a">>, <<"b">>}}

\* the orders in which a set of nodes can be listed
NodeOrders(K) ==
    {o \in [1..Cardinality(K) -> K] : \A i, j \in 1..Len(o) : i # j => o[i] # o[j]}

CliqueInit ==
    /\ MapIdle
    /\ ValueIdle
    /\ IntersectIdle
    /\ SearchIdle
    /\ TimeoutIdle
    /\ StackIdle
    /\ SynthIdle
    /\ PoolIdle
    /\ KbIdle
    /\ \E nodes \in {N \in SUBSET CliqueMappings : Cardinality(N) <= MaxNodes} :
          call = [op |-> "change_intersection", nodes |-> nodes]
    /\ returns = <<>>

\* clique, _ = nx.max_weight_clique(g): some clique of g, its nodes in some
\* order
FindClique ==
    /\ returns = <<>>
    /\ \E K \in Cliques(call.nodes) : \E clique \in NodeOrders(K) :
          returns' = <<clique>>
    /\ UNCHANGED call

\* mapping = ConfigurationTaskArgumentMapping.merge_all(clique)
MergeClique ==
    /\ Len(returns) = 1
    /\ returns[1] # <<>>
    /\ returns' = Append(returns, merge_all(returns[1]))
    /\ UNCHANGED call

CliqueNext ==
    /\ \/ FindClique
       \/ MergeClique
    /\ UNCHANGED <<mapVars, valueVars, intersectVars, searchVars, timeoutVars, kbVars, poolVars, synthVars, stackVars>>

SpecClique == CliqueInit /\ [][CliqueNext]_vars

\* C28: merge_all over the nodes of a clique, whose nodes merge two by two,
\* raises nothing, and the mapping it gives holds the pairs of every node.
C28_CliqueMerges ==
    Len(returns) = 2 =>
        /\ ~returns[2].raised
        /\ \A i \in 1..Len(returns[1]) : \A a \in DOMAIN returns[1][i].source_arguments :
              /\ a \in DOMAIN returns[2].obj.source_arguments
              /\ returns[2].obj.source_arguments[a] = returns[1][i].source_arguments[a]

\* C28 witness: a clique of three mappings, one of them of two pairs, was
\* merged into a mapping of three pairs
C28_Witness ==
    /\ Len(returns) = 2
    /\ Len(returns[1]) = MaxNodes
    /\ Cardinality(DOMAIN returns[2].obj.source_arguments) = 3
    /\ \E i \in 1..Len(returns[1]) : Cardinality(DOMAIN returns[1][i].source_arguments) = 2

(***************************************************************************)
(* map_to_other of a change with itself                                    *)
(***************************************************************************)
\* the changes mapped: FileAdd and EnvSet changes, and FileChanges with up
\* to MaxRows rows, decomposed over each argument pool
SelfMapChanges ==
    UNION {UNION {from_primitives(c[1], c[2], arguments) : c \in ChangePrimitives}
           \cup FileChanges(arguments) : arguments \in ArgumentPools}

\* the arguments of the synthetic values of a change
ChangeArguments(c) ==
    UNION ({c.fields[i].arguments : i \in 1..Len(c.fields)}
           \cup {c.changes[i].content.arguments : i \in 1..Len(c.changes)})

\* the mapping of every argument of the change to itself
SelfMapping(c) == NewMapping(SetToSeq({<<a, a>> : a \in ChangeArguments(c)})).obj

SelfMapInit ==
    /\ MapIdle
    /\ ValueIdle
    /\ IntersectIdle
    /\ SearchIdle
    /\ TimeoutIdle
    /\ StackIdle
    /\ SynthIdle
    /\ PoolIdle
    /\ KbIdle
    /\ \E c \in SelfMapChanges :
          call = [op |-> "map_to_other", self |-> c, other |-> c]
    /\ returns = <<>>

\* c.map_to_other(c)
SelfMap ==
    /\ returns = <<>>
    /\ returns' = <<map_to_other(call.self, call.other)>>
    /\ UNCHANGED call

SelfMapNext ==
    /\ SelfMap
    /\ UNCHANGED <<mapVars, valueVars, intersectVars, searchVars, timeoutVars, kbVars, poolVars, synthVars, stackVars>>

SpecSelfMap == SelfMapInit /\ [][SelfMapNext]_vars

\* C29: map_to_other of a change with itself raises nothing and returns,
\* among its mappings, the one that maps every argument of the change to
\* itself; so it does for a FileChange without content changes.
C29_SelfMapsIdentity ==
    returns # <<>> =>
        /\ ~returns[1].type_error
        /\ ~returns[1].value_error
        /\ SelfMapping(call.self) \in returns[1].mappings

\* the same for the changes that are not a FileChange without content
\* changes
C29_SelfMapsIdentityWithRows ==
    (returns # <<>> /\ ~(call.self.type = "FileChange" /\ call.self.changes = <<>>))
        => /\ ~returns[1].type_error
           /\ ~returns[1].value_error
           /\ SelfMapping(call.self) \in returns[1].mappings

\* a FileChange without content changes maps to itself under no mapping
C29_NoRowsNoMapping ==
    (returns # <<>> /\ call.self.type = "FileChange" /\ call.self.changes = <<>>)
        => returns[1].mappings = {}

(***************************************************************************)
(* map_to_primitive as its loop: the stack of search states, one iteration *)
(* per step                                                                *)
(***************************************************************************)
\* the states in the order they are appended: by the index they start at
RECURSIVE PushOrder(_)
PushOrder(S) ==
    IF S = {} THEN <<>>
    ELSE LET x == CHOOSE y \in S : \A z \in S : y.other_idx <= z.other_idx
         IN  <<x>> \o PushOrder(S \ {x})

\* the values searched: the decompositions of a value over an argument pool
StackValues ==
    UNION {{SyntheticValue(in[1], order) : order \in SortedOrders(CandidateArguments(in[1], in[2]))} :
              in \in LetterInputs}

StackInit ==
    /\ MapIdle
    /\ ValueIdle
    /\ IntersectIdle
    /\ SearchIdle
    /\ TimeoutIdle
    /\ SynthIdle
    /\ PoolIdle
    /\ KbIdle
    /\ \E self \in StackValues, other \in Primitives :
          call = [op |-> "map_to_primitive", self |-> self, other |-> other]
    /\ returns = <<>>
    /\ mpStates = <<>>
    /\ mpFrom = <<>>
    /\ mpMappings = {}
    /\ mpStarted = FALSE

\* the value is the primitive, or has no argument: the result is returned
\* without a search
StackFastPath ==
    /\ ~mpStarted
    /\ call.self.original_value = call.other \/ call.self.arguments = {}
    /\ mpStarted' = TRUE
    /\ returns' = <<map_to_primitive(call.self, call.other)>>
    /\ UNCHANGED <<call, mpStates, mpFrom, mpMappings>>

\* states = [(0, 0, ConfigurationTaskArgumentMapping())]
StackBegin ==
    /\ ~mpStarted
    /\ call.self.original_value # call.other /\ call.self.arguments # {}
    /\ mpStarted' = TRUE
    /\ mpStates' = <<[self_idx |-> 0, other_idx |-> 0, mapping |-> EmptyMapping]>>
    /\ mpFrom' = <<-1>>
    /\ UNCHANGED <<call, returns, mpMappings>>

\* one iteration of while states: pop a state, advance, add its mapping or
\* append the states that follow it
StackPop ==
    /\ mpStates # <<>>
    /\ LET st == mpStates[Len(mpStates)]
           v == Visit(Tokens(call.self.parts), call.other, st)
           pushed == PushOrder(v.push)
       IN  /\ mpStates' = SubSeq(mpStates, 1, Len(mpStates) - 1) \o pushed
           /\ mpFrom' = SubSeq(mpFrom, 1, Len(mpFrom) - 1) \o [i \in 1..Len(pushed) |-> st.self_idx]
           /\ mpMappings' = IF v.add THEN mpMappings \cup {st.mapping} ELSE mpMappings
    /\ UNCHANGED <<call, returns, mpStarted>>

\* the stack is empty: return mappings
StackReturn ==
    /\ mpStarted
    /\ mpStates = <<>>
    /\ returns = <<>>
    /\ returns' = <<mpMappings>>
    /\ UNCHANGED <<call, mpStates, mpFrom, mpMappings, mpStarted>>

StackNext ==
    /\ \/ StackFastPath
       \/ StackBegin
       \/ StackPop
       \/ StackReturn
    /\ UNCHANGED <<mapVars, valueVars, intersectVars, searchVars, timeoutVars, kbVars, poolVars, synthVars>>

SpecStack == StackInit /\ [][StackNext]_vars

\* b to the power e
RECURSIVE Power(_, _)
Power(b, e) == IF e = 0 THEN 1 ELSE b * Power(b, e - 1)

\* the work a stack of states stands for: a state at position i of n tokens
\* counts for w to the power n - i, w being more than the states one
\* iteration can push
RECURSIVE Rank(_, _, _)
Rank(states, n, w) ==
    IF states = <<>> THEN 0
    ELSE Power(w, n - Head(states).self_idx) + Rank(Tail(states), n, w)

\* the work left for the stack of a call
RankOf(states) == Rank(states, Len(Tokens(call.self.parts)), Len(call.other) + 2)

\* every state on the stack lies further in the token sequence of the value
\* than the state it was derived from, and within the two sequences
PushedFurther(states, from) ==
    \A i \in 1..Len(states) :
       /\ states[i].self_idx > from[i]
       /\ states[i].self_idx <= Len(Tokens(call.self.parts))
       /\ states[i].other_idx <= Len(call.other)

\* C30: map_to_primitive comes to its end on every value and every
\* primitive: every state pushed lies at a strictly larger position of the
\* value's token sequence than the state it was derived from, so that every
\* iteration of the loop lowers the work left on the stack, which is finite
\* and never negative; and what is returned once the stack is empty is what
\* the search finds.
C30_Terminates ==
    [][/\ PushedFurther(mpStates', mpFrom')
       /\ mpStates # <<>> => RankOf(mpStates') < RankOf(mpStates)
       /\ mpStates' # <<>> => returns' = <<>>
       /\ returns' # <<>> => returns' = <<map_to_primitive(call.self, call.other)>>]_vars

\* C30 witness: a search that pushed states, found two mappings and returned
C30_Witness ==
    /\ returns # <<>>
    /\ mpStates = <<>>
    /\ Cardinality(mpMappings) >= 2
    /\ returns[1] = mpMappings

\* a stack of three states, the last derived from a state that was itself
\* pushed
C30_WitnessDeep ==
    /\ Len(mpStates) >= 3
    /\ mpFrom[Len(mpFrom)] >= 1

====
